---------------------------- MODULE Spec2Model ----------------------------
(***************************************************************************)
(* A model of the DPoS / Merkle blockchain node of                         *)
(* M-kev/iot-dpos-blockchain-merkle.                                       *)
(*                                                                         *)
(* These specifications share this module:                                 *)
(*   SpecMerkle  the Merkle tree (src/src/utils/merkle_tree.py) applied to *)
(*               bounded transaction lists;                                *)
(*   SpecDPoS    the roster operations of one DPoS engine                  *)
(*               (src/src/consensus/dpos.py);                              *)
(*   SpecLeader  leader selection of one DPoS engine over its liveness     *)
(*               view;                                                     *)
(*   SpecValidate  validate_block of one DPoS engine put to blocks at the  *)
(*               edge of each of its bounds;                               *)
(*   Spec        a network of nodes (src/src/main.py): proposer, inbound   *)
(*               handlers on the transport thread, peer sync;              *)
(*   SpecPool    the pending pool of the nodes: transaction handler and    *)
(*               proposer only, with a longer pool;                        *)
(*   SpecInbound the block handler and peer sync of the nodes, with        *)
(*               publishers outside the roster on the blocks topic;        *)
(*   SpecSync    the sync rounds of one node whose two peers answer any    *)
(*               list of blocks or nothing, and SpecSyncFair, the same     *)
(*               under the timeout of the HTTP client;                     *)
(*   SpecCatchUp proposers and peer sync from the databases of the peers;  *)
(*   SpecCheckpoint  checkpoints of one DPoS engine between changes of its *)
(*               roster;                                                   *)
(*   SpecBlockTime  adjust_block_time of one DPoS engine put to network    *)
(*               status messages;                                          *)
(*   SpecLifecycle  the transaction_lifecycle table of one database        *)
(*               (src/src/storage/sqlite_storage.py);                      *)
(*   SpecFresh   the block handler, the status handler and peer sync of    *)
(*               one node fed by blocks that link to its chain;            *)
(*   SpecRotate  heartbeats, the liveness view and the proposers while the *)
(*               first leader stops, and SpecRotateFair, the same with     *)
(*               the proposer loops of the other nodes running on;         *)
(*   SpecCommit  heartbeats sealed into blocks by the leaders in turn and  *)
(*               taken in by the other nodes.                              *)
(*                                                                         *)
(* Modelling conventions                                                   *)
(*   - SHA-256 is collision free: a digest is the tagged value             *)
(*     <<"sha256", input>>.  A JSON text is <<"json", pairs>>, the         *)
(*     concatenation of two hex digests is <<"cat", l, r>>; "0"*64 is      *)
(*     <<"zero">>.                                                         *)
(*   - A transaction (a Python dict) is a TLA+ function from keys to       *)
(*     integer values.                                                     *)
(*   - Node ids are the integers 1..n, ordered as the strings              *)
(*     "pi_node_1" < "pi_node_2" < ... are.                                *)
(*   - Time is counted in half seconds (block_time moves in steps of 0.5). *)
(***************************************************************************)
EXTENDS Integers, Sequences, FiniteSets, TLC

(***************************************************************************)
(* Bounds of the model.                                                    *)
(***************************************************************************)
\* longest transaction list handed to the Merkle tree
MaxTxs == 5

\* the clock advances at most MaxTicks times
MaxTicks == 1

\* a node seals or takes in blocks while its chain is shorter than MaxChain
MaxChain == 3

\* a node takes in transactions while fewer than MaxPending are pending
MaxPending == 1

\* the broker holds at most MaxMsgs undelivered messages per topic
MaxMsgs == 2

\* the longest pending list of a node that only takes transactions and seals
MaxPool == 2

\* the clock advances at most MaxBeats times by half the liveness threshold
MaxBeats == 2

\* the most steps by which status messages bring the block time below the
\* default
MaxAdjust == 1

\* the latest of the timestamps handed to the database
MaxStamp == 2

\* self.checkpoint_interval, which dpos.py line 21 sets to 100, brought down
\* to the heights the chains of the model reach
CheckpointInterval == 2

\* the longest list of blocks a peer answers with
MaxAnswer == 2

\* a small max_validators, so that a full roster is reached
SmallRoster == 2

(***************************************************************************)
(* Program constants.                                                      *)
(***************************************************************************)
\* DPoS.block_time at construction, seconds
BlockTimeDefault == 3

\* block_time in half seconds
BlockTimeWindow == 2 * BlockTimeDefault

\* energy_threshold (dpos.py): the highest power usage, in watts, a block
\* may be validated under
EnergyThreshold == 5

\* DPoS.liveness_threshold, seconds
LivenessThreshold == 60

\* DPoS.delegate_update_interval, seconds
DelegateUpdateInterval == 300

\* DPoS.max_validators by default
MaxValidatorsDefault == 21

\* None, where a node id is expected
NoneId == 0

\* the stake of every node in the genesis block
InitialStake == 1000

\* transactions per block: self.pending_transactions[:10]
BlockTxLimit == 10

\* GenesisBlock.fixed_timestamp; the model's clock counts from it, and the
\* Unix epoch (time 0.0 in the code) is not told apart from it
GenesisTimestamp == 0

\* s seconds in the model's time unit (half seconds)
Seconds(s) == 2 * s

\* the least block time of adjust_block_time, seconds
BlockTimeMin == 1

\* the greatest block time of adjust_block_time, seconds
BlockTimeMax == 5

\* the network load above which the block time goes down, in tenths
HighLoad == 8

\* the network load below which the block time goes up, in tenths
LowLoad == 3

\* the network load taken when a status message names none, in tenths
DefaultLoad == 5

\* the 0.5 seconds by which adjust_block_time changes the block time, in the
\* model's time unit
BlockTimeStep == 1

\* time.time() when the program starts: long after the genesis timestamp
StartTime == Seconds(DelegateUpdateInterval)

(***************************************************************************)
(* Transactions and hashing.                                               *)
(***************************************************************************)
\* the keys a transaction of the model may carry, in lexicographic order
SortedKeys == <<"a", "i", "node_id", "timestamp">>

\* the transactions of the model: {"a": 1}, {"i": 0}, {"a": 1, "i": 0}
TxSet == { [a |-> 1], [i |-> 0], [a |-> 1, i |-> 0] }

\* json.dumps(tx, sort_keys=True): the key/value pairs in key order
json_dumps(tx) ==
    LET ks == SelectSeq(SortedKeys, LAMBDA k : k \in DOMAIN tx)
    IN  <<"json", [j \in 1..Len(ks) |-> <<ks[j], tx[ks[j]]>>]>>

\* hashlib.sha256(data.encode()).hexdigest(), collision free
_hash_data(data) == <<"sha256", data>>

\* "0" * 64
ZeroHash == <<"zero">>

\* left.hash + right.hash (two 64-character hex strings)
Concat(l, r) == <<"cat", l, r>>

\* the absent right child (None)
NoNode == <<"None">>

(***************************************************************************)
(* MerkleTree.  A node is represented by its hash: the code compares and   *)
(* combines nodes by hash only.                                            *)
(***************************************************************************)
\* _create_leaf_node
_create_leaf_node(tx) == _hash_data(json_dumps(tx))

\* a faulty _create_parent_node: a lone left child is hashed alone
_create_parent_node_lone(left, right) ==
    IF right = NoNode THEN _hash_data(left) ELSE _hash_data(Concat(left, right))

\* _create_parent_node(left, right): a missing right child duplicates left
_create_parent_node(left, right) ==
    LET r == IF right = NoNode THEN left ELSE right
    IN  _hash_data(Concat(left, r))

\* self.leaf_nodes
leaf_nodes(txs) == [j \in 1..Len(txs) |-> _create_leaf_node(txs[j])]

\* the for loop of _build_tree: i = 0, 2, 4, ... (0-based) over current_level
RECURSIVE PairLevel(_, _)
PairLevel(level, i) ==
    IF i >= Len(level) THEN <<>>
    ELSE <<_create_parent_node(level[i + 1],
                               IF i + 1 < Len(level) THEN level[i + 2] ELSE NoNode)>>
         \o PairLevel(level, i + 2)

\* the while loop of _build_tree
RECURSIVE ReduceLevels(_)
ReduceLevels(level) ==
    IF Len(level) > 1 THEN ReduceLevels(PairLevel(level, 0)) ELSE level[1]

\* _build_tree followed by get_root_hash
get_root_hash(txs) ==
    IF Len(txs) = 0 THEN ZeroHash ELSE ReduceLevels(leaf_nodes(txs))

\* get_leaf_count
get_leaf_count(txs) == Len(leaf_nodes(txs))

\* the first index (0-based) of current_level whose hash is cur
FirstIndexOf(level, cur) ==
    (CHOOSE j \in 1..Len(level) :
        level[j] = cur /\ \A k \in 1..(j - 1) : level[k] # cur) - 1

\* the while loop of get_proof
RECURSIVE ProofLoop(_, _, _)
ProofLoop(level, cur, proof) ==
    IF Len(level) <= 1 THEN proof
    ELSE IF \A j \in 1..Len(level) : level[j] # cur THEN proof
    ELSE
      LET node_index    == FirstIndexOf(level, cur)
          is_left       == node_index % 2 = 0
          sibling_index == IF is_left THEN node_index + 1 ELSE node_index - 1
          proof2 == IF sibling_index < Len(level)
                    THEN Append(proof, [hash |-> level[sibling_index + 1],
                                        position |-> IF is_left THEN "right" ELSE "left"])
                    ELSE proof
          next_level == PairLevel(level, 0)
          parent == next_level[(node_index \div 2) + 1]
      IN  ProofLoop(next_level, parent, proof2)

\* whether get_proof(transaction_index) raises IndexError: a negative index
\* passes the range test and leaf_nodes[transaction_index] is out of range
get_proof_raises(txs, transaction_index) ==
    /\ Len(txs) > 0
    /\ transaction_index < 0 - Len(txs)

\* get_proof(transaction_index) when it returns
get_proof(txs, transaction_index) ==
    IF Len(txs) = 0 \/ transaction_index >= Len(txs) THEN <<>>
    ELSE LET leaves == leaf_nodes(txs)
             \* Python indexing: a negative index counts from the end
             pos == IF transaction_index < 0
                    THEN Len(txs) + transaction_index
                    ELSE transaction_index
         IN  ProofLoop(leaves, leaves[pos + 1], <<>>)

\* the for loop of verify_proof
RECURSIVE VerifyLoop(_, _, _)
VerifyLoop(current_hash, proof, k) ==
    IF k > Len(proof) THEN current_hash
    ELSE LET combined == IF proof[k].position = "left"
                         THEN Concat(proof[k].hash, current_hash)
                         ELSE Concat(current_hash, proof[k].hash)
         IN  VerifyLoop(_hash_data(combined), proof, k + 1)

\* a faulty verify_proof: an empty proof is accepted without comparing
verify_proof_empty_ok(transaction, proof, root_hash) ==
    \/ Len(proof) = 0
    \/ VerifyLoop(_hash_data(json_dumps(transaction)), proof, 1) = root_hash

\* verify_proof(transaction, proof, root_hash)
verify_proof(transaction, proof, root_hash) ==
    VerifyLoop(_hash_data(json_dumps(transaction)), proof, 1) = root_hash

(***************************************************************************)
(* DPoS engine.  An engine is a record; every method is an operator from   *)
(* the engine (and its arguments) to the engine after the call and the     *)
(* value returned.                                                         *)
(***************************************************************************)
\* the empty dict
EmptyMap == [x \in {} |-> 0]

\* d[k] = v
MapPut(d, k, v) == [x \in (DOMAIN d) \cup {k} |-> IF x = k THEN v ELSE d[x]]

\* del d[k]
MapDel(d, k) == [x \in (DOMAIN d) \ {k} |-> d[x]]

\* the elements of a sequence
Range(seq) == { seq[j] : j \in 1..Len(seq) }

\* DPoS.__init__(max_validators, metrics)
DPoS_init(max_validators, has_metrics) ==
    [ max_validators            |-> max_validators,
      validators                |-> EmptyMap,
      delegates                 |-> <<>>,
      block_time                |-> Seconds(BlockTimeDefault),
      has_metrics               |-> has_metrics,
      checkpoints               |-> EmptyMap,
      checkpoint_interval       |-> CheckpointInterval,
      last_delegate_update_time |-> 0 ]

\* a faulty add_validator: the roster may grow to one more than max_validators
add_validator_over(e, address, stake) ==
    IF Cardinality(DOMAIN e.validators) > e.max_validators
    THEN [eng |-> e, ret |-> FALSE]
    ELSE [eng |-> [e EXCEPT !.validators = MapPut(@, address, stake)], ret |-> TRUE]

\* add_validator(address, stake)
add_validator(e, address, stake) ==
    IF Cardinality(DOMAIN e.validators) >= e.max_validators
    THEN [eng |-> e, ret |-> FALSE]
    ELSE [eng |-> [e EXCEPT !.validators = MapPut(@, address, stake)], ret |-> TRUE]

\* remove_validator(address)
remove_validator(e, address) ==
    IF address \in DOMAIN e.validators
    THEN [eng |-> [e EXCEPT !.validators = MapDel(@, address)], ret |-> TRUE]
    ELSE [eng |-> e, ret |-> FALSE]

\* a faulty create_checkpoint: the height is not looked at
create_checkpoint_any(e, block_height, t) ==
    [e EXCEPT !.checkpoints =
        MapPut(@, block_height,
               [ block_height |-> block_height,
                 delegates    |-> e.delegates,
                 validators   |-> e.validators,
                 timestamp    |-> t ])]

\* create_checkpoint(block_height): copies of the delegates and of the
\* validators are kept under the height
create_checkpoint(e, block_height, t) ==
    IF block_height % e.checkpoint_interval = 0
    THEN [e EXCEPT !.checkpoints =
             MapPut(@, block_height,
                    [ block_height |-> block_height,
                      delegates    |-> e.delegates,
                      validators   |-> e.validators,
                      timestamp    |-> t ])]
    ELSE e

\* restore_from_checkpoint(block_height): copies of the kept lists become
\* the delegates and the validators
restore_from_checkpoint(e, block_height) ==
    IF block_height \notin DOMAIN e.checkpoints
    THEN [eng |-> e, ret |-> FALSE]
    ELSE [eng |-> [e EXCEPT !.delegates = e.checkpoints[block_height].delegates,
                            !.validators = e.checkpoints[block_height].validators],
          ret |-> TRUE]

\* max(a, b) and min(a, b)
Max(a, b) == IF a >= b THEN a ELSE b
Min(a, b) == IF a <= b THEN a ELSE b

\* a faulty adjust_block_time: the block time is not held within its limits
adjust_block_time_unbounded(e, network_load) ==
    IF network_load > HighLoad
    THEN [e EXCEPT !.block_time = @ - BlockTimeStep]
    ELSE IF network_load < LowLoad
    THEN [e EXCEPT !.block_time = @ + BlockTimeStep]
    ELSE e

\* adjust_block_time(network_load), the load in tenths
adjust_block_time(e, network_load) ==
    IF network_load > HighLoad
    THEN [e EXCEPT !.block_time = Max(Seconds(BlockTimeMin), @ - BlockTimeStep)]
    ELSE IF network_load < LowLoad
    THEN [e EXCEPT !.block_time = Min(Seconds(BlockTimeMax), @ + BlockTimeStep)]
    ELSE e

\* a faulty sort key (stake, node_id): the lower stake comes first
StakeBefore_ascending(validators, a, b) ==
    \/ validators[a] < validators[b]
    \/ validators[a] = validators[b] /\ a < b

\* the sort key (-stake, node_id): a comes before b
StakeBefore(validators, a, b) ==
    \/ validators[a] > validators[b]
    \/ validators[a] = validators[b] /\ a < b

\* sorted(self.validators.items(), key=lambda x: (-x[1], x[0])), ids only
RECURSIVE SortedByStake(_, _)
SortedByStake(validators, ids) ==
    IF ids = {} THEN <<>>
    ELSE LET first == CHOOSE a \in ids :
                        \A b \in ids \ {a} : StakeBefore(validators, a, b)
         IN  <<first>> \o SortedByStake(validators, ids \ {first})

\* seq[:n]
Take(seq, n) == SubSeq(seq, 1, IF n < Len(seq) THEN n ELSE Len(seq))

\* an _update_delegates that recomputes on every call
_update_delegates_always(e, force_update, t) ==
    [e EXCEPT
       !.delegates = Take(SortedByStake(e.validators, DOMAIN e.validators),
                          e.max_validators),
       !.last_delegate_update_time = t]

\* _update_delegates(force_update) at time t
_update_delegates(e, force_update, t) ==
    IF ~ force_update
         /\ t - e.last_delegate_update_time < Seconds(DelegateUpdateInterval)
    THEN e
    ELSE [e EXCEPT
            !.delegates = Take(SortedByStake(e.validators, DOMAIN e.validators),
                               e.max_validators),
            !.last_delegate_update_time = t]

\* update_stake(address, new_stake) at time t
update_stake(e, address, new_stake, t) ==
    IF address \notin DOMAIN e.validators
    THEN [eng |-> e, ret |-> FALSE]
    ELSE [eng |-> _update_delegates(
                      [e EXCEPT !.validators = MapPut(@, address, new_stake)],
                      TRUE, t),
          ret |-> TRUE]

\* sorted(list) of node ids: insertion of x into an ascending sequence
RECURSIVE InsertAsc(_, _)
InsertAsc(seq, x) ==
    IF seq = <<>> THEN <<x>>
    ELSE IF x <= Head(seq) THEN <<x>> \o seq
    ELSE <<Head(seq)>> \o InsertAsc(Tail(seq), x)

\* sorted(list) of node ids
RECURSIVE sorted(_)
sorted(seq) ==
    IF seq = <<>> THEN <<>> ELSE InsertAsc(sorted(Tail(seq)), Head(seq))

\* a faulty liveness test: a delegate last seen exactly liveness_threshold
\* ago still counts as live
IsLive_at_threshold(view, delegate_id, t) ==
    /\ delegate_id \in DOMAIN view
    /\ t - view[delegate_id] <= Seconds(LivenessThreshold)

\* the liveness test of get_current_validator for one delegate: the view
\* (metrics.all_nodes_metrics) maps a node id to its 'timestamp'
IsLive(view, delegate_id, t) ==
    /\ delegate_id \in DOMAIN view
    /\ t - view[delegate_id] < Seconds(LivenessThreshold)

\* a faulty get_current_validator: the slot is taken from the reference
\* index itself instead of the index of the next block
get_current_validator_same_slot(e, view, t, reference_block_index) ==
    LET live == IF e.has_metrics
                THEN SelectSeq(e.delegates, LAMBDA d : IsLive(view, d, t))
                ELSE e.delegates
        active == sorted(live)
    IN  IF e.delegates = <<>> \/ active = <<>> THEN NoneId
        ELSE active[((reference_block_index + Len(active)) % Len(active)) + 1]

\* get_current_validator(reference_block_index) at time t
get_current_validator(e, view, t, reference_block_index) ==
    IF e.delegates = <<>> THEN NoneId
    ELSE LET active_and_live_delegates ==
                 IF e.has_metrics
                 THEN SelectSeq(e.delegates, LAMBDA d : IsLive(view, d, t))
                 ELSE e.delegates
             active == sorted(active_and_live_delegates)
         IN  IF active = <<>> THEN NoneId
             ELSE active[((reference_block_index + 1) % Len(active)) + 1]

(***************************************************************************)
(* State.                                                                  *)
(***************************************************************************)
VARIABLES
    \* SpecMerkle: one tree, one proof request, one verification
    m_txs,      \* the transaction list the tree is built from
    m_idx,      \* the index a proof is asked for
    m_tx,       \* the transaction handed to verify_proof
    m_given,    \* a caller supplied proof, or NoProof
    m_root,     \* get_root_hash() once built
    m_proof,    \* the proof in hand
    m_ok,       \* the result of verify_proof
    m_pc,       \* "new", "built", "proved", "raised", "supplied", "verified", "checked"
    \* SpecDPoS: one DPoS engine and the liveness view it reads
    eng,        \* the DPoS object
    eng_view,   \* metrics.all_nodes_metrics: node id -> 'timestamp'
    eng_call,   \* the last call made on the engine and what it returned
    \* Spec: per node, the fields of BlockchainNode and its two threads
    blocks,                 \* self.blocks
    storage,                \* the blocks table: block_index -> row
    pending_transactions,   \* self.pending_transactions
    all_nodes_metrics,      \* self.metrics.all_nodes_metrics: id -> 'timestamp'
    dpos,                   \* self.dpos
    alive,                  \* the process is running
    loop,                   \* the asyncio thread: where it is, and its locals
    mqtt,                   \* the transport thread: where it is, and its locals
    blocks_topic,           \* block messages not yet delivered
    metrics_topic,          \* metrics messages not yet delivered
    \* SpecLifecycle: one database and what has been handed to it
    db,             \* the tables blocks and transaction_lifecycle
    db_recorded,    \* tx_hash -> the timestamps record_tx_received was given
    \* the clock, shared by all specifications
    now,        \* time.time(), in half seconds
    ticks       \* how often the clock has advanced

merkleVars == <<m_txs, m_idx, m_tx, m_given, m_root, m_proof, m_ok, m_pc>>

engVars == <<eng, eng_view, eng_call>>

clockVars == <<now, ticks>>

nodeVars == <<blocks, storage, pending_transactions, all_nodes_metrics, dpos,
              alive, loop, mqtt>>

netVars == <<nodeVars, blocks_topic, metrics_topic>>

dbVars == <<db, db_recorded>>

vars == <<merkleVars, engVars, netVars, dbVars, clockVars>>

\* what the Merkle actions leave alone
notMerkle == <<engVars, netVars, dbVars, clockVars>>

\* what the actions on the lone engine leave alone
notEng == <<merkleVars, netVars, dbVars>>

\* what the actions of the network leave alone
notNet == <<merkleVars, engVars, dbVars>>

\* what the actions on the lone database leave alone
notDb == <<merkleVars, engVars, netVars, clockVars>>

(***************************************************************************)
(* SpecMerkle: a tree is built over a bounded list, a proof is asked for   *)
(* (or supplied by the caller) and verified.                               *)
(***************************************************************************)
\* all sequences over S of length at most n
SeqsUpTo(S, n) == UNION { [1..k -> S] : k \in 0..n }

\* no caller supplied proof
NoProof == <<[hash |-> ZeroHash, position |-> "none"]>>

\* the proofs a caller may supply instead of get_proof's
SuppliedProofs ==
    SeqsUpTo({ [hash |-> h, position |-> p] :
                 h \in {ZeroHash} \cup { _create_leaf_node(t) : t \in TxSet },
                 p \in {"left", "right"} }, 1)

\* the Merkle tree is not in use
MerkleIdle ==
    /\ m_txs = <<>>
    /\ m_idx = 0
    /\ m_tx = [a |-> 1]
    /\ m_given = NoProof
    /\ m_root = <<"unset">>
    /\ m_proof = <<>>
    /\ m_ok = FALSE
    /\ m_pc = "idle"

MerkleInit ==
    /\ m_txs \in SeqsUpTo(TxSet, MaxTxs)
    /\ m_idx \in (0 - (Len(m_txs) + 1))..(Len(m_txs) + 1)
    /\ m_tx \in TxSet
    /\ m_given \in {NoProof} \cup SuppliedProofs
    /\ (m_given # NoProof => m_idx = 0)
    /\ m_root = <<"unset">>
    /\ m_proof = <<>>
    /\ m_ok = FALSE
    /\ m_pc = "new"

\* MerkleTree(transactions)
MBuild ==
    /\ m_pc = "new"
    /\ m_root' = get_root_hash(m_txs)
    /\ m_pc' = "built"
    /\ UNCHANGED <<m_txs, m_idx, m_tx, m_given, m_proof, m_ok>>
    /\ UNCHANGED notMerkle

\* tree.get_proof(m_idx)
MGetProof ==
    /\ m_pc = "built"
    /\ m_given = NoProof
    /\ IF get_proof_raises(m_txs, m_idx)
       THEN m_pc' = "raised" /\ UNCHANGED m_proof
       ELSE m_pc' = "proved" /\ m_proof' = get_proof(m_txs, m_idx)
    /\ UNCHANGED <<m_txs, m_idx, m_tx, m_given, m_root, m_ok>>
    /\ UNCHANGED notMerkle

\* the caller brings a proof of its own
MSupplyProof ==
    /\ m_pc = "built"
    /\ m_given # NoProof
    /\ m_proof' = m_given
    /\ m_pc' = "supplied"
    /\ UNCHANGED <<m_txs, m_idx, m_tx, m_given, m_root, m_ok>>
    /\ UNCHANGED notMerkle

\* tree.verify_proof(m_tx, m_proof, tree.get_root_hash())
MVerify ==
    /\ m_pc \in {"proved", "supplied"}
    /\ m_ok' = verify_proof(m_tx, m_proof, m_root)
    /\ m_pc' = IF m_pc = "proved" THEN "verified" ELSE "checked"
    /\ UNCHANGED <<m_txs, m_idx, m_tx, m_given, m_root, m_proof>>
    /\ UNCHANGED notMerkle



(***************************************************************************)
(* SpecDPoS: the roster methods of one DPoS engine, called in any order.   *)
(* SpecLeader: an engine whose roster is filled and whose liveness view is *)
(* fed by record_node_metrics while time passes, asked for the leader.     *)
(***************************************************************************)
\* the validator ids a lone engine is given: "a", "b", "c"
ValidatorIds == {1, 2, 3}

\* the stakes a validator is given
Stakes == {InitialStake, 2 * InitialStake}

\* the reference block indices asked about
RefIndices == (0 - 1)..2

\* no call has been made since the engine last changed
NoCall == [op |-> "none", arg |-> 0, ret |-> 0]

\* the lone engine is not in use
EngIdle ==
    /\ eng = DPoS_init(MaxValidatorsDefault, TRUE)
    /\ eng_view = EmptyMap
    /\ eng_call = NoCall

ClockInit ==
    /\ now = StartTime
    /\ ticks = 0

\* the lone database is not in use
DbIdle ==
    /\ db = [blocks |-> EmptyMap, transaction_lifecycle |-> EmptyMap]
    /\ db_recorded = EmptyMap

EngInit ==
    /\ eng \in { DPoS_init(m, h) : m \in {SmallRoster, MaxValidatorsDefault},
                                   h \in BOOLEAN }
    /\ eng_view = EmptyMap
    /\ eng_call = NoCall

\* time passes by d half seconds
EngTick(d) ==
    /\ ticks < MaxTicks
    /\ now' = now + d
    /\ ticks' = ticks + 1
    /\ eng_call' = NoCall
    /\ UNCHANGED <<eng, eng_view>>
    /\ UNCHANGED notEng

\* dpos.add_validator(a, s)
EngAddValidatorAmong(ids) ==
    /\ \E a \in ids, s \in Stakes :
         LET r == add_validator(eng, a, s)
         IN  /\ eng' = r.eng
             /\ eng_call' = [op |-> "add_validator", arg |-> a, stake |-> s,
                             ret |-> r.ret]
    /\ UNCHANGED <<eng_view, clockVars>>
    /\ UNCHANGED notEng

\* dpos.add_validator(a, s) for any of the ids
EngAddValidator == EngAddValidatorAmong(ValidatorIds)

\* dpos.remove_validator(a)
EngRemoveValidatorAmong(ids) ==
    /\ \E a \in ids :
         LET r == remove_validator(eng, a)
         IN  /\ eng' = r.eng
             /\ eng_call' = [op |-> "remove_validator", arg |-> a, ret |-> r.ret]
    /\ UNCHANGED <<eng_view, clockVars>>
    /\ UNCHANGED notEng

\* dpos.remove_validator(a) for any of the ids
EngRemoveValidator == EngRemoveValidatorAmong(ValidatorIds)

\* dpos.update_stake(a, s)
EngUpdateStakeAmong(ids) ==
    /\ \E a \in ids, s \in Stakes :
         LET r == update_stake(eng, a, s, now)
         IN  /\ eng' = r.eng
             /\ eng_call' = [op |-> "update_stake", arg |-> a, ret |-> r.ret]
    /\ UNCHANGED <<eng_view, clockVars>>
    /\ UNCHANGED notEng

\* dpos.update_stake(a, s) for any of the ids
EngUpdateStake == EngUpdateStakeAmong(ValidatorIds)

\* dpos._update_delegates(force_update)
EngUpdateDelegates ==
    /\ \E force \in BOOLEAN :
         /\ eng' = _update_delegates(eng, force, now)
         /\ eng_call' = [op |-> "_update_delegates",
                         arg |-> IF force THEN 1 ELSE 0, ret |-> 0]
    /\ UNCHANGED <<eng_view, clockVars>>
    /\ UNCHANGED notEng

\* the heights put to the checkpoint calls: the first positive multiple of
\* the interval and the height before it
CheckpointHeights == {CheckpointInterval - 1, CheckpointInterval}

\* dpos.create_checkpoint(block_height)
EngCreateCheckpoint ==
    /\ \E block_height \in CheckpointHeights :
         /\ eng' = create_checkpoint(eng, block_height, now)
         /\ eng_call' = [op |-> "create_checkpoint", arg |-> block_height, ret |-> 0]
    /\ UNCHANGED <<eng_view, clockVars>>
    /\ UNCHANGED notEng

\* dpos.restore_from_checkpoint(block_height)
EngRestoreFromCheckpoint ==
    /\ \E block_height \in CheckpointHeights :
         LET r == restore_from_checkpoint(eng, block_height)
         IN  /\ eng' = r.eng
             /\ eng_call' = [op |-> "restore_from_checkpoint", arg |-> block_height,
                             ret |-> r.ret]
    /\ UNCHANGED <<eng_view, clockVars>>
    /\ UNCHANGED notEng

\* the network loads of the status messages, in tenths: on both sides of
\* the two thresholds and at them
NetworkLoads == {0, LowLoad - 1, LowLoad, LowLoad + 1, HighLoad - 1, HighLoad,
                 HighLoad + 1, 10}

\* the status messages: with a network_load or without
StatusMessages ==
    { [network_load |-> l] : l \in NetworkLoads } \cup { [active_broker |-> 0] }

\* _handle_network_status(status_data):
\* dpos.adjust_block_time(status_data.get('network_load', 0.5))
EngHandleNetworkStatus ==
    /\ \E status_data \in StatusMessages :
         LET network_load == IF "network_load" \in DOMAIN status_data
                             THEN status_data.network_load ELSE DefaultLoad
         IN  /\ eng' = adjust_block_time(eng, network_load)
             /\ eng_call' = [op |-> "adjust_block_time", arg |-> network_load, ret |-> 0]
    /\ UNCHANGED <<eng_view, clockVars>>
    /\ UNCHANGED notEng

\* metrics.record_node_metrics(a, ...): 'timestamp' becomes time.time()
EngRecordMetrics ==
    /\ eng.has_metrics
    /\ \E a \in ValidatorIds : eng_view' = MapPut(eng_view, a, now)
    /\ eng_call' = NoCall
    /\ UNCHANGED <<eng, clockVars>>
    /\ UNCHANGED notEng

\* dpos.get_current_validator(ref)
EngGetCurrentValidator ==
    /\ \E ref \in RefIndices :
         eng_call' = [op |-> "get_current_validator", arg |-> ref,
                      ret |-> get_current_validator(eng, eng_view, now, ref)]
    /\ UNCHANGED <<eng, eng_view, clockVars>>
    /\ UNCHANGED notEng

(***************************************************************************)
(* Blocks (src/src/consensus/block.py, genesis.py) and their storage       *)
(* (src/src/storage/sqlite_storage.py).                                    *)
(***************************************************************************)
\* RASPBERRY_PI_NODES: the roster, cut down to two nodes
RASPBERRY_PI_NODES == <<1, 2>>

\* the node ids of the roster
NetNodes == Range(RASPBERRY_PI_NODES)

\* GenesisBlock.initial_stakes, for the roster of the model
initial_stakes == [n \in NetNodes |-> InitialStake]

\* the validator string "genesis": an id outside the roster
GenesisValidator == NoneId - 1

\* energy_metrics of a block: the sensor readings are not modelled
NoReadings == EmptyMap

\* Block.calculate_hash: json.dumps(..., sort_keys=True) of six fields
calculate_hash(b) ==
    _hash_data(<<"json", << <<"block_index", b.block_index>>,
                            <<"energy_metrics", b.energy_metrics>>,
                            <<"merkle_root", b.merkle_root>>,
                            <<"previous_hash", b.previous_hash>>,
                            <<"timestamp", b.timestamp>>,
                            <<"validator", b.validator>> >> >>)

\* Block(...) with __post_init__: the Merkle root is rebuilt from the
\* transactions, whatever merkle_root was passed, and the hash computed
Block(block_index, timestamp, transactions, previous_hash, validator, energy_metrics) ==
    LET b == [ block_index    |-> block_index,
               timestamp      |-> timestamp,
               transactions   |-> transactions,
               previous_hash  |-> previous_hash,
               validator      |-> validator,
               energy_metrics |-> energy_metrics,
               merkle_root    |-> get_root_hash(transactions) ]
    IN  ("hash" :> calculate_hash(b)) @@ b

\* Block.to_dict: the eight entries that go on the wire
to_dict(b) ==
    [ block_index    |-> b.block_index,
      timestamp      |-> b.timestamp,
      transactions   |-> b.transactions,
      previous_hash  |-> b.previous_hash,
      hash           |-> b.hash,
      validator      |-> b.validator,
      energy_metrics |-> b.energy_metrics,
      merkle_root    |-> b.merkle_root ]

\* a from_dict that reads the header entries only
from_dict_headers(data) ==
    Block(data.block_index, data.timestamp, <<>>,
          data.previous_hash, data.validator, data.energy_metrics)

\* Block.from_dict: 'hash' is not read, 'merkle_root' is overwritten
from_dict(data) ==
    Block(data.block_index, data.timestamp, data.transactions,
          data.previous_hash, data.validator, data.energy_metrics)

\* GenesisBlock.create_genesis_block: one stake distribution transaction
create_genesis_block ==
    Block(0, GenesisTimestamp, <<[timestamp |-> GenesisTimestamp]>>,
          ZeroHash, GenesisValidator, NoReadings)

\* the last element of a non-empty list: self.blocks[-1]
Last(seq) == seq[Len(seq)]

\* SQLiteStorage.save_block: INSERT OR REPLACE by block_index
save_block(st, b) ==
    MapPut(st, b.block_index,
           [ block_index    |-> b.block_index,
             timestamp      |-> b.timestamp,
             validator      |-> b.validator,
             previous_hash  |-> b.previous_hash,
             hash           |-> b.hash,
             transactions   |-> b.transactions,
             energy_metrics |-> b.energy_metrics,
             merkle_root    |-> b.merkle_root ])

\* SQLiteStorage.get_chain_length: SELECT COUNT(*) FROM blocks
get_chain_length(st) == Cardinality(DOMAIN st)

\* SQLiteStorage.get_block(block_index): the row rebuilt as a Block; the
\* caller sees to it that the row exists
get_block(st, block_index) == from_dict(st[block_index])

\* save_block for each block of a list, in order
RECURSIVE save_blocks(_, _)
save_blocks(st, bs) ==
    IF bs = <<>> THEN st ELSE save_blocks(save_block(st, Head(bs)), Tail(bs))

\* the rows with block_index >= start_index, ORDER BY block_index ASC
RECURSIVE RowsFrom(_, _)
RowsFrom(st, start_index) ==
    LET keys == { k \in DOMAIN st : k >= start_index }
    IN  IF keys = {} THEN <<>>
        ELSE LET k == CHOOSE x \in keys : \A y \in keys : x <= y
             IN  <<st[k]>> \o RowsFrom(st, k + 1)

\* a faulty query: the rows with block_index > start_index
get_blocks_above(st, start_index) ==
    LET rows == RowsFrom(st, start_index + 1)
    IN  [j \in 1..Len(rows) |-> to_dict(from_dict(rows[j]))]

\* SQLiteStorage.get_blocks(start_index, -1) followed by to_dict of each
\* block, as GET /api/blocks answers: every row is rebuilt as a Block
get_blocks(st, start_index) ==
    LET rows == RowsFrom(st, start_index)
    IN  [j \in 1..Len(rows) |-> to_dict(from_dict(rows[j]))]

\* validate_merkle_tree_integrity(merkle_root, transactions)
validate_merkle_tree_integrity(merkle_root, transactions) ==
    IF transactions = <<>> THEN merkle_root = ZeroHash
    ELSE get_root_hash(transactions) = merkle_root

\* a merkle_root that is None or the empty string
EmptyRoot == <<>>

\* DPoS._validate_merkle_tree(block): block.merkle_tree is the tree that
\* __post_init__ built from the transactions
_validate_merkle_tree(block) ==
    /\ block.merkle_root # EmptyRoot
    /\ block.merkle_root = get_root_hash(block.transactions)
    /\ get_leaf_count(block.transactions) = Len(block.transactions)

\* abs(x)
Abs(x) == IF x < 0 THEN 0 - x ELSE x

\* DPoS.is_time_to_propose_block(last_block_timestamp) at time t
is_time_to_propose_block(e, last_block_timestamp, t) ==
    t >= last_block_timestamp + e.block_time

\* a faulty validate_block: a block stamped exactly at
\* previous_block_timestamp - sync_tolerance is let through
validate_block_at_tolerance(e, view, t, block, power_usage, previous_block_timestamp, previous_block_index, sync_tolerance) ==
    /\ block.validator \in Range(e.delegates)
    /\ block.validator = get_current_validator(e, view, t, previous_block_index)
    /\ ~ (block.timestamp < previous_block_timestamp - sync_tolerance)
    /\ ~ (block.block_index <= previous_block_index)
    /\ ~ (Abs(t - block.timestamp) > e.block_time)
    /\ _validate_merkle_tree(block)
    /\ ~ (power_usage > EnergyThreshold)

\* a faulty validate_block: the age of the block is not looked at
validate_block_any_age(e, view, t, block, power_usage, previous_block_timestamp, previous_block_index, sync_tolerance) ==
    /\ block.validator \in Range(e.delegates)
    /\ block.validator = get_current_validator(e, view, t, previous_block_index)
    /\ ~ (block.timestamp <= previous_block_timestamp - sync_tolerance)
    /\ ~ (block.block_index <= previous_block_index)
    /\ _validate_merkle_tree(block)
    /\ ~ (power_usage > EnergyThreshold)

\* DPoS.validate_block(block, power_usage, previous_block_timestamp,
\* previous_block_index, sync_tolerance) at time t
validate_block(e, view, t, block, power_usage, previous_block_timestamp, previous_block_index, sync_tolerance) ==
    /\ block.validator \in Range(e.delegates)
    /\ block.validator = get_current_validator(e, view, t, previous_block_index)
    /\ ~ (block.timestamp <= previous_block_timestamp - sync_tolerance)
    /\ ~ (block.block_index <= previous_block_index)
    /\ ~ (Abs(t - block.timestamp) > e.block_time)
    /\ _validate_merkle_tree(block)
    /\ ~ (power_usage > EnergyThreshold)

\* the power usage a node measures when a block arrives: at the threshold
\* or above it
PowerReadings == {EnergyThreshold, EnergyThreshold + 1}

\* the ways a block is put to validate_block: how far from the current time
\* it is stamped, how far its index is above previous_block_index, how far
\* previous_block_timestamp is ahead of it, the tolerance, whether its
\* merkle_root attribute is left as built, emptied or set to the root of
\* another transaction list, and the power usage.  The first case sits on
\* the edge of every bound; each other case leaves one bound.
ValidateCases ==
    LET edge == [ d |-> 0 - BlockTimeWindow, up |-> 1, ahead |-> 0, sync_tolerance |-> 1,
                  merkle_root |-> get_root_hash(<<[a |-> 1]>>),
                  power_usage |-> EnergyThreshold ]
    IN  { edge,
          [edge EXCEPT !.d = 0 - BlockTimeWindow - 1],
          [edge EXCEPT !.d = BlockTimeWindow + 1],
          [edge EXCEPT !.up = 0],
          [edge EXCEPT !.sync_tolerance = 0],
          [edge EXCEPT !.ahead = 1],
          [edge EXCEPT !.merkle_root = EmptyRoot],
          [edge EXCEPT !.merkle_root = get_root_hash(<<>>)],
          [edge EXCEPT !.power_usage = EnergyThreshold + 1] }

\* the block of a case: built by Block(...), then its merkle_root set
CandidateBlock(c, previous_block_index, validator, t) ==
    [Block(previous_block_index + c.up, t + c.d, <<[a |-> 1]>>, ZeroHash, validator, NoReadings)
        EXCEPT !.merkle_root = c.merkle_root]

\* dpos.validate_block(block, power_usage, previous_block_timestamp,
\* previous_block_index, sync_tolerance); the call record keeps the engine
\* as it was when the call was made
EngValidateBlock ==
    /\ \E c \in ValidateCases, validator \in {1, 2},
          previous_block_index \in {0, 1} :
         LET block == CandidateBlock(c, previous_block_index, validator, now)
         IN  eng_call' =
               [ op  |-> "validate_block",
                 arg |-> [ dpos                     |-> eng,
                           block                    |-> block,
                           power_usage              |-> c.power_usage,
                           previous_block_timestamp |-> block.timestamp + c.ahead,
                           previous_block_index     |-> previous_block_index,
                           sync_tolerance           |-> c.sync_tolerance ],
                 ret |-> validate_block(eng, eng_view, now, block, c.power_usage,
                                        block.timestamp + c.ahead,
                                        previous_block_index, c.sync_tolerance) ]
    /\ UNCHANGED <<eng, eng_view, clockVars>>
    /\ UNCHANGED notEng

(***************************************************************************)
(* The network of nodes (src/src/main.py).  Each node runs two threads:    *)
(* the asyncio loop (proposer, heartbeat and sync tasks, which give way to *)
(* one another only where they await) and the transport's thread, on which *)
(* the inbound handlers run.  The two threads of a node interleave freely. *)
(* A message that is never delivered is lost; a node that takes no more    *)
(* steps has crashed.                                                      *)
(***************************************************************************)
\* seq[n:]
Drop(seq, n) == SubSeq(seq, n + 1, Len(seq))

\* a transaction a client publishes on the transactions topic
ClientTxs == { [a |-> 1] }

\* the transaction _handle_incoming_metrics makes of a metrics message; the
\* entries 'type' and 'metrics' are left out
MetricsTx(metrics_data) ==
    [node_id |-> metrics_data.node_id, timestamp |-> metrics_data.timestamp]

\* the value of a local that holds no block yet
NoBlock ==
    [ block_index    |-> Len(<<>>),
      timestamp      |-> GenesisTimestamp,
      transactions   |-> <<>>,
      previous_hash  |-> ZeroHash,
      validator      |-> NoneId,
      energy_metrics |-> NoReadings,
      merkle_root    |-> ZeroHash,
      hash           |-> ZeroHash ]

\* the asyncio thread between two tasks
IdleLoop ==
    [ pc                       |-> "idle",
      boot                     |-> FALSE,
      new_block                |-> NoBlock,
      previous_block_timestamp |-> GenesisTimestamp,
      previous_block_index     |-> Len(<<>>),
      peers                    |-> <<>>,
      blocks_data              |-> <<>>,
      local_chain_length       |-> Len(<<>>) ]

\* the transport thread between two messages
IdleMqtt ==
    [ pc                       |-> "idle",
      block_data               |-> to_dict(NoBlock),
      block                    |-> NoBlock,
      previous_block_timestamp |-> GenesisTimestamp,
      previous_block_index     |-> Len(<<>>) ]

\* add_validator for every entry of the genesis stake distribution
RECURSIVE AddValidators(_, _)
AddValidators(e, ids) ==
    IF ids = <<>> THEN e
    ELSE AddValidators(add_validator(e, Head(ids), initial_stakes[Head(ids)]).eng,
                       Tail(ids))

\* BlockchainNode.__init__ with _initialize_blockchain on an empty database,
\* at time StartTime on every node
NetInit ==
    /\ blocks = [n \in NetNodes |-> <<create_genesis_block>>]
    /\ storage = [n \in NetNodes |-> save_block(EmptyMap, create_genesis_block)]
    /\ pending_transactions = [n \in NetNodes |-> <<>>]
    /\ dpos = [n \in NetNodes |->
                 AddValidators(DPoS_init(MaxValidatorsDefault, TRUE),
                               RASPBERRY_PI_NODES)]
    /\ all_nodes_metrics = [n \in NetNodes |-> [m \in NetNodes |-> StartTime]]
    /\ alive = [n \in NetNodes |-> TRUE]
    /\ loop = [n \in NetNodes |-> [IdleLoop EXCEPT !.pc = "new"]]
    /\ mqtt = [n \in NetNodes |-> IdleMqtt]
    /\ blocks_topic = {}
    /\ metrics_topic = {}

\* no node has been constructed
NetIdle ==
    /\ blocks = EmptyMap
    /\ storage = EmptyMap
    /\ pending_transactions = EmptyMap
    /\ dpos = EmptyMap
    /\ all_nodes_metrics = EmptyMap
    /\ alive = EmptyMap
    /\ loop = EmptyMap
    /\ mqtt = EmptyMap
    /\ blocks_topic = {}
    /\ metrics_topic = {}

\* start() has connected the node to the broker and the process runs
Connected(n) == alive[n] /\ loop[n].pc # "new"

\* MQTTClient.publish: one copy for every connected subscriber, the sender
\* included; nothing goes out while the broker holds MaxMsgs messages
publish(topic, payload) ==
    LET copies == { [to |-> m, payload |-> payload] :
                      m \in { x \in NetNodes : Connected(x) } }
    IN  IF Cardinality(topic \cup copies) <= MaxMsgs
        THEN topic \cup copies ELSE topic

\* [node for node in RASPBERRY_PI_NODES if node['id'] != self.node_id]
Peers(n) == SelectSeq(RASPBERRY_PI_NODES, LAMBDA p : p # n)

\* time passes by d half seconds
NetTick(d) ==
    /\ ticks < MaxTicks
    /\ now' = now + d
    /\ ticks' = ticks + 1
    /\ UNCHANGED netVars
    /\ UNCHANGED notNet

\* _publish_metrics_periodically, one round: the node stamps its own entry
\* of the liveness view and publishes its metrics.  Rounds are
\* metrics_interval apart: there is one at most per instant of the clock
PublishMetrics(n) ==
    /\ alive[n]
    /\ loop[n].pc = "idle"
    /\ all_nodes_metrics[n][n] < now
    /\ all_nodes_metrics' = [all_nodes_metrics EXCEPT ![n] = MapPut(@, n, now)]
    /\ metrics_topic' = publish(metrics_topic, [node_id |-> n, timestamp |-> now])
    /\ UNCHANGED <<blocks, storage, pending_transactions, dpos, alive, loop,
                   mqtt, blocks_topic, clockVars>>
    /\ UNCHANGED notNet

\* _handle_incoming_metrics: the sender's entry of the view is stamped with
\* the time of receipt, the message becomes a pending transaction, and the
\* delegates are updated if the interval has passed
HandleIncomingMetrics(n) ==
    /\ Connected(n)
    /\ mqtt[n].pc = "idle"
    /\ Len(pending_transactions[n]) < MaxPending
    /\ \E msg \in metrics_topic :
         /\ msg.to = n
         /\ metrics_topic' = metrics_topic \ {msg}
         /\ all_nodes_metrics' =
                [all_nodes_metrics EXCEPT ![n] = MapPut(@, msg.payload.node_id, now)]
         /\ pending_transactions' =
                [pending_transactions EXCEPT ![n] = Append(@, MetricsTx(msg.payload))]
    /\ dpos' = [dpos EXCEPT ![n] = _update_delegates(@, FALSE, now)]
    /\ UNCHANGED <<blocks, storage, alive, loop, mqtt, blocks_topic, clockVars>>
    /\ UNCHANGED notNet

\* _handle_new_transaction: a client's transaction joins the pending list,
\* which is let grow to limit entries
HandleNewTransactionUpTo(n, limit) ==
    /\ Connected(n)
    /\ mqtt[n].pc = "idle"
    /\ Len(pending_transactions[n]) < limit
    /\ \E tx \in ClientTxs :
         pending_transactions' = [pending_transactions EXCEPT ![n] = Append(@, tx)]
    /\ UNCHANGED <<blocks, storage, all_nodes_metrics, dpos, alive, loop, mqtt,
                   blocks_topic, metrics_topic, clockVars>>
    /\ UNCHANGED notNet

\* a publisher outside the roster posts a block dictionary on the blocks
\* topic: a block built on some node's tail in some node's name, with the
\* merkle_root entry either the root of its transactions or another root
ForeignBlock ==
    /\ \E on \in NetNodes, validator \in NetNodes, tx \in ClientTxs :
       \E merkle_root \in {get_root_hash(<<tx>>), get_root_hash(<<>>)} :
         /\ Len(blocks[on]) < MaxChain
         /\ blocks_topic' =
              publish(blocks_topic,
                      [to_dict(Block(Len(blocks[on]), now, <<tx>>,
                                     Last(blocks[on]).hash, validator, NoReadings))
                         EXCEPT !.merkle_root = merkle_root])
    /\ UNCHANGED <<nodeVars, metrics_topic, clockVars>>
    /\ UNCHANGED notNet

\* a peer of node n whose chain is that of n seals a block on its tail and
\* publishes it (lines 511-531 of the peer) while the broker holds no block
PeerBlock(n) ==
    /\ Len(blocks[n]) < MaxChain
    /\ blocks_topic = {}
    /\ \E validator \in NetNodes, tx \in ClientTxs :
         blocks_topic' =
           publish(blocks_topic,
                   to_dict(Block(Len(blocks[n]), now, <<tx>>,
                                 Last(blocks[n]).hash, validator, NoReadings)))
    /\ UNCHANGED <<nodeVars, metrics_topic, clockVars>>
    /\ UNCHANGED notNet

\* _handle_new_transaction with the pending list bounded by MaxPending
HandleNewTransaction(n) == HandleNewTransactionUpTo(n, MaxPending)

\* _handle_new_transaction with the pending list bounded by MaxPool
HandleNewTransactionPool(n) == HandleNewTransactionUpTo(n, MaxPool)

\* _handle_network_status on the transport thread, between two messages:
\* the block time follows the network_load of the message, here within
\* MaxAdjust steps of the default
HandleNetworkStatus(n) ==
    /\ Connected(n)
    /\ mqtt[n].pc = "idle"
    /\ \E network_load \in {LowLoad - 1, HighLoad + 1} :
         LET e == adjust_block_time(dpos[n], network_load)
         IN  /\ Seconds(BlockTimeDefault) - e.block_time <= MaxAdjust * BlockTimeStep
             /\ e # dpos[n]
             /\ dpos' = [dpos EXCEPT ![n] = e]
    /\ UNCHANGED <<blocks, storage, pending_transactions, all_nodes_metrics,
                   alive, loop, mqtt, blocks_topic, metrics_topic, clockVars>>
    /\ UNCHANGED notNet

\* _handle_new_block up to the test of previous_hash (lines 147-177): the
\* block is dropped if its hash is in the chain, if a validation fails or
\* if it does not link to the tail; else it is about to be appended.
\* self.blocks is never empty, so the branches for an empty chain are left out
HandleNewBlockCheck(n) ==
    /\ Connected(n)
    /\ mqtt[n].pc = "idle"
    /\ Len(blocks[n]) < MaxChain
    /\ \E msg \in blocks_topic :
         /\ msg.to = n
         /\ blocks_topic' = blocks_topic \ {msg}
         /\ LET block == from_dict(msg.payload)
                previous_block_timestamp == Last(blocks[n]).timestamp
                previous_block_index == Last(blocks[n]).block_index
            IN  \E power_usage \in PowerReadings :
                  IF /\ \A j \in 1..Len(blocks[n]) : blocks[n][j].hash # block.hash
                     /\ validate_merkle_tree_integrity(block.merkle_root,
                                                       block.transactions)
                     /\ validate_block(dpos[n], all_nodes_metrics[n], now, block,
                                       power_usage, previous_block_timestamp,
                                       previous_block_index, 0)
                     /\ block.previous_hash = Last(blocks[n]).hash
                  THEN mqtt' = [mqtt EXCEPT ![n] =
                           [ pc                       |-> "append",
                             block_data               |-> msg.payload,
                             block                    |-> block,
                             previous_block_timestamp |-> previous_block_timestamp,
                             previous_block_index     |-> previous_block_index ]]
                  ELSE mqtt' = mqtt
    /\ UNCHANGED <<blocks, storage, pending_transactions, all_nodes_metrics, dpos,
                   alive, loop, metrics_topic, clockVars>>
    /\ UNCHANGED notNet

\* _handle_new_block, lines 178-179: append and persist
HandleNewBlockAppend(n) ==
    /\ alive[n]
    /\ mqtt[n].pc = "append"
    /\ blocks' = [blocks EXCEPT ![n] = Append(@, mqtt[n].block)]
    /\ storage' = [storage EXCEPT ![n] = save_block(@, mqtt[n].block)]
    /\ mqtt' = [mqtt EXCEPT ![n] = IdleMqtt]
    /\ UNCHANGED <<pending_transactions, all_nodes_metrics, dpos, alive, loop,
                   blocks_topic, metrics_topic, clockVars>>
    /\ UNCHANGED notNet

\* the leader a node computes for the block after its tail
CurrentValidator(n) ==
    get_current_validator(dpos[n], all_nodes_metrics[n], now,
                          Last(blocks[n]).block_index)

\* _process_transactions_periodically, line 468: current_validator is None
\* and None.strip() raises; nothing catches it, the process ends
ProposerCrash(n) ==
    /\ alive[n]
    /\ loop[n].pc = "idle"
    /\ CurrentValidator(n) = NoneId
    /\ alive' = [alive EXCEPT ![n] = FALSE]
    /\ UNCHANGED <<blocks, storage, pending_transactions, all_nodes_metrics, dpos,
                   loop, mqtt, blocks_topic, metrics_topic, clockVars>>
    /\ UNCHANGED notNet

\* _process_transactions_periodically, lines 457-531: the node is the
\* leader, is healthy, the block time has passed and transactions are
\* pending; the block is sealed on the tail and published.  A round in
\* which one of the tests fails changes nothing
ProposerPublish(n) ==
    /\ alive[n]
    /\ loop[n].pc = "idle"
    /\ Len(blocks[n]) < MaxChain
    /\ CurrentValidator(n) = n
    /\ \E _check_system_health \in BOOLEAN : _check_system_health
    /\ is_time_to_propose_block(dpos[n], Last(blocks[n]).timestamp, now)
    /\ pending_transactions[n] # <<>>
    /\ LET new_block == Block(Len(blocks[n]), now,
                              Take(pending_transactions[n], BlockTxLimit),
                              Last(blocks[n]).hash, CurrentValidator(n),
                              NoReadings)
       IN  /\ blocks_topic' = publish(blocks_topic, to_dict(new_block))
           /\ loop' = [loop EXCEPT ![n] =
                  [IdleLoop EXCEPT
                     !.pc = "published",
                     !.new_block = new_block,
                     !.previous_block_timestamp = Last(blocks[n]).timestamp,
                     !.previous_block_index = Last(blocks[n]).block_index]]
    /\ UNCHANGED <<blocks, storage, pending_transactions, all_nodes_metrics, dpos,
                   alive, mqtt, metrics_topic, clockVars>>
    /\ UNCHANGED notNet

\* _process_transactions_periodically, lines 535-536: append and persist
ProposerAppend(n) ==
    /\ alive[n]
    /\ loop[n].pc = "published"
    /\ blocks' = [blocks EXCEPT ![n] = Append(@, loop[n].new_block)]
    /\ storage' = [storage EXCEPT ![n] = save_block(@, loop[n].new_block)]
    /\ loop' = [loop EXCEPT ![n].pc = "appended"]
    /\ UNCHANGED <<pending_transactions, all_nodes_metrics, dpos, alive, mqtt,
                   blocks_topic, metrics_topic, clockVars>>
    /\ UNCHANGED notNet

\* _process_transactions_periodically, lines 535-536 when the database
\* write fails: the block is in self.blocks, save_block re-raises the error
\* (sqlite_storage.py 147-149), nothing in the loop catches it, gather in
\* start() passes it on and the process ends
ProposerStoreFails(n) ==
    /\ alive[n]
    /\ loop[n].pc = "published"
    /\ blocks' = [blocks EXCEPT ![n] = Append(@, loop[n].new_block)]
    /\ alive' = [alive EXCEPT ![n] = FALSE]
    /\ UNCHANGED <<storage, pending_transactions, all_nodes_metrics, dpos, loop,
                   mqtt, blocks_topic, metrics_topic, clockVars>>
    /\ UNCHANGED notNet

\* _process_transactions_periodically, line 560: the processed
\* transactions leave the pending list
ProposerClear(n) ==
    /\ alive[n]
    /\ loop[n].pc = "appended"
    /\ pending_transactions' =
           [pending_transactions EXCEPT ![n] = Drop(@, BlockTxLimit)]
    /\ loop' = [loop EXCEPT ![n] = IdleLoop]
    /\ UNCHANGED <<blocks, storage, all_nodes_metrics, dpos, alive, mqtt,
                   blocks_topic, metrics_topic, clockVars>>
    /\ UNCHANGED notNet

\* _synchronize_chain up to the first GET (lines 283-309), at start() (where
\* the node also connects to the broker) or as the periodic task
SyncBeginAmong(n, peers) ==
    /\ alive[n]
    /\ loop[n].pc \in {"new", "idle"}
    /\ loop' = [loop EXCEPT ![n] =
           [IdleLoop EXCEPT
              !.pc = "sync",
              !.boot = (loop[n].pc = "new"),
              !.peers = peers,
              !.local_chain_length = Len(blocks[n])]]
    /\ UNCHANGED <<blocks, storage, pending_transactions, all_nodes_metrics, dpos,
                   alive, mqtt, blocks_topic, metrics_topic, clockVars>>
    /\ UNCHANGED notNet

\* _synchronize_chain on the roster of the configuration
SyncBegin(n) == SyncBeginAmong(n, Peers(n))

\* the entries Block.from_dict reads with data[...]: a dictionary that lacks
\* one of them raises KeyError
BlockKeys == {"block_index", "timestamp", "transactions", "previous_hash", "validator", "energy_metrics"}

\* Block.from_dict(data) raises nothing
Parsable(data) == BlockKeys \subseteq DOMAIN data

\* a faulty loop: a block is appended without the test of previous_hash
RECURSIVE SyncLoop_unlinked(_, _, _, _)
SyncLoop_unlinked(chain, blocks_data, current_prev_block_index, current_prev_block_timestamp) ==
    IF blocks_data = <<>> THEN chain
    ELSE IF ~ Parsable(Head(blocks_data))
    THEN SyncLoop_unlinked(chain, Tail(blocks_data), current_prev_block_index,
                           current_prev_block_timestamp)
    ELSE LET block == from_dict(Head(blocks_data))
         IN  IF /\ block.block_index > current_prev_block_index
                /\ block.timestamp > current_prev_block_timestamp
             THEN SyncLoop_unlinked(Append(chain, block), Tail(blocks_data),
                                    block.block_index, block.timestamp)
             ELSE SyncLoop_unlinked(chain, Tail(blocks_data), current_prev_block_index,
                                    current_prev_block_timestamp)

\* the for loop of _sync_with_peer (lines 322-358): a block is appended if
\* its index and timestamp exceed those kept from the last appended block
\* (at first, of the tail) and it links to the tail as it is now; else it
\* is skipped and the loop goes on, as it does when from_dict raises
RECURSIVE SyncLoop(_, _, _, _)
SyncLoop(chain, blocks_data, current_prev_block_index, current_prev_block_timestamp) ==
    IF blocks_data = <<>> THEN chain
    ELSE IF ~ Parsable(Head(blocks_data))
    THEN SyncLoop(chain, Tail(blocks_data), current_prev_block_index,
                  current_prev_block_timestamp)
    ELSE LET block == from_dict(Head(blocks_data))
         IN  IF /\ block.block_index > current_prev_block_index
                /\ block.timestamp > current_prev_block_timestamp
                /\ block.previous_hash = Last(chain).hash
             THEN SyncLoop(Append(chain, block), Tail(blocks_data),
                           block.block_index, block.timestamp)
             ELSE SyncLoop(chain, Tail(blocks_data), current_prev_block_index,
                           current_prev_block_timestamp)

\* _sync_with_peer from the answer of the peer on (lines 311-360), then the
\* GET to the next peer or, after the last one, _update_delegates (line 299,
\* and with force_update at line 397 when the node starts).  A peer that is
\* down or out of reach answers nothing
SyncResponse(n) ==
    /\ alive[n]
    /\ loop[n].pc = "sync"
    /\ Len(blocks[n]) < MaxChain
    /\ LET peer == Head(loop[n].peers)
       IN  \E answered \in BOOLEAN :
             /\ answered => Connected(peer)
             /\ LET blocks_data ==
                        IF answered
                        THEN get_blocks(storage[peer], loop[n].local_chain_length)
                        ELSE <<>>
                    chain == SyncLoop(blocks[n], blocks_data,
                                      Last(blocks[n]).block_index,
                                      Last(blocks[n]).timestamp)
                IN  /\ blocks' = [blocks EXCEPT ![n] = chain]
                    /\ storage' = [storage EXCEPT ![n] =
                           save_blocks(@, Drop(chain, Len(blocks[n])))]
    /\ IF Tail(loop[n].peers) = <<>>
       THEN /\ dpos' = [dpos EXCEPT ![n] = _update_delegates(@, loop[n].boot, now)]
            /\ loop' = [loop EXCEPT ![n] = IdleLoop]
       ELSE /\ dpos' = dpos
            /\ loop' = [loop EXCEPT ![n].peers = Tail(@)]
    /\ UNCHANGED <<pending_transactions, all_nodes_metrics, alive, mqtt,
                   blocks_topic, metrics_topic, clockVars>>
    /\ UNCHANGED notNet

\* the roster of a node that has two peers
SyncRoster == <<1, 2, 3>>

\* the one node whose sync rounds are followed
SyncNodes == {Head(SyncRoster)}

\* _synchronize_chain of a node with two peers
SyncBeginWide(n) ==
    SyncBeginAmong(n, SelectSeq(SyncRoster, LAMBDA p : p # n))

\* the blocks a peer may send after the block prev: with the index of prev
\* or the next, with the timestamp of prev or a later one, linked to prev
\* or to nothing
BlocksAfter(prev) ==
    { Block(prev.block_index + up, prev.timestamp + later, <<[a |-> 1]>>,
            previous_hash, GenesisValidator, NoReadings) :
        up \in {0, 1}, later \in {0, 1}, previous_hash \in {prev.hash, ZeroHash} }

\* a dictionary that is no block
Unparsable == [block_index |-> 1]

\* the lists of at most MaxAnswer entries a peer may answer with to a node
\* whose tail is tail: blocks after the tail or after one another, and
\* dictionaries that are no blocks
PeerAnswers(tail) ==
    LET first == { to_dict(b) : b \in BlocksAfter(tail) } \cup {Unparsable}
        second(d) == { to_dict(b) : b \in BlocksAfter(tail) } \cup {Unparsable}
                     \cup (IF Parsable(d)
                           THEN { to_dict(b) : b \in BlocksAfter(from_dict(d)) }
                           ELSE {})
    IN  {<<>>} \cup { <<d>> : d \in first }
        \cup (IF MaxAnswer < 2 THEN {}
              ELSE UNION { { <<d, e>> : e \in second(d) } : d \in first })

\* _sync_with_peer, lines 309-313: the peer answers 200 with a list
SyncAnswer(n) ==
    /\ alive[n]
    /\ loop[n].pc = "sync"
    /\ Len(blocks[n]) < MaxChain
    /\ \E blocks_data \in PeerAnswers(Last(blocks[n])) :
         loop' = [loop EXCEPT ![n].pc = "answered",
                              ![n].blocks_data = blocks_data]
    /\ UNCHANGED <<blocks, storage, pending_transactions, all_nodes_metrics, dpos,
                   alive, mqtt, blocks_topic, metrics_topic, clockVars>>
    /\ UNCHANGED notNet

\* _sync_with_peer, lines 309-313: the peer answers 200 with one block that
\* links to the tail of the node, stamped just after the tail
SyncAnswerLinked(n) ==
    /\ alive[n]
    /\ loop[n].pc = "sync"
    /\ Len(blocks[n]) < MaxChain
    /\ \E b \in BlocksAfter(Last(blocks[n])) :
         /\ b.previous_hash = Last(blocks[n]).hash
         /\ loop' = [loop EXCEPT ![n].pc = "answered",
                                 ![n].blocks_data = <<to_dict(b)>>]
    /\ UNCHANGED <<blocks, storage, pending_transactions, all_nodes_metrics, dpos,
                   alive, mqtt, blocks_topic, metrics_topic, clockVars>>
    /\ UNCHANGED notNet

\* _sync_with_peer, lines 305-313: the peer is up and answers 200 with the
\* blocks of its database from start_index = local_chain_length on
SyncFetch(n) ==
    /\ alive[n]
    /\ loop[n].pc = "sync"
    /\ Len(blocks[n]) < MaxChain
    /\ Connected(Head(loop[n].peers))
    /\ loop' = [loop EXCEPT
           ![n].pc = "answered",
           ![n].blocks_data = get_blocks(storage[Head(loop[n].peers)],
                                         loop[n].local_chain_length)]
    /\ UNCHANGED <<blocks, storage, pending_transactions, all_nodes_metrics, dpos,
                   alive, mqtt, blocks_topic, metrics_topic, clockVars>>
    /\ UNCHANGED notNet

\* a faulty round: it ends with the peer in hand, whoever is left
NextPeer_stop(n) ==
    /\ dpos' = [dpos EXCEPT ![n] = _update_delegates(@, loop[n].boot, now)]
    /\ loop' = [loop EXCEPT ![n] = IdleLoop]

\* the end of _sync_with_peer for one peer: the GET to the next peer or,
\* after the last one, _update_delegates (lines 297-299, 397)
NextPeer(n) ==
    IF Tail(loop[n].peers) = <<>>
    THEN /\ dpos' = [dpos EXCEPT ![n] = _update_delegates(@, loop[n].boot, now)]
         /\ loop' = [loop EXCEPT ![n] = IdleLoop]
    ELSE /\ dpos' = dpos
         /\ loop' = [loop EXCEPT ![n].peers = Tail(@), ![n].pc = "sync",
                                 ![n].blocks_data = <<>>]

\* _sync_with_peer, lines 309-367, when the GET times out or raises, or the
\* answer is not 200: the error is printed
SyncNoAnswer(n) ==
    /\ alive[n]
    /\ loop[n].pc = "sync"
    /\ NextPeer(n)
    /\ UNCHANGED <<blocks, storage, pending_transactions, all_nodes_metrics,
                   alive, mqtt, blocks_topic, metrics_topic, clockVars>>
    /\ UNCHANGED notNet

\* _sync_with_peer, lines 315-360: the answer is worked through
SyncProcess(n) ==
    /\ alive[n]
    /\ loop[n].pc = "answered"
    /\ LET chain == SyncLoop(blocks[n], loop[n].blocks_data,
                             Last(blocks[n]).block_index,
                             Last(blocks[n]).timestamp)
       IN  /\ blocks' = [blocks EXCEPT ![n] = chain]
           /\ storage' = [storage EXCEPT ![n] =
                  save_blocks(@, Drop(chain, Len(blocks[n])))]
    /\ NextPeer(n)
    /\ UNCHANGED <<pending_transactions, all_nodes_metrics, alive, mqtt,
                   blocks_topic, metrics_topic, clockVars>>
    /\ UNCHANGED notNet

(***************************************************************************)
(* SpecLifecycle: one database; transactions are recorded as received and  *)
(* blocks are saved.                                                       *)
(***************************************************************************)
\* NULL: no timestamp and no block index of the model is below 0
Null == 0 - 1

\* COALESCE(a, b)
Coalesce(a, b) == IF a # Null THEN a ELSE b

\* the scalar MIN(a, b) of SQLite: NULL if either is NULL
SqlMin(a, b) ==
    IF a = Null \/ b = Null THEN Null ELSE IF a <= b THEN a ELSE b

\* a faulty record_tx_received: the timestamp of the last call is kept
record_tx_received_last(lifecycle, tx_hash, received_timestamp) ==
    IF tx_hash \notin DOMAIN lifecycle
    THEN MapPut(lifecycle, tx_hash,
                [ received_timestamp |-> received_timestamp,
                  included_timestamp |-> Null,
                  block_index        |-> Null ])
    ELSE [lifecycle EXCEPT ![tx_hash].received_timestamp = received_timestamp]

\* record_tx_received(tx_hash, received_timestamp): INSERT, and ON CONFLICT
\* received_timestamp = MIN(COALESCE(old, new), new)
record_tx_received(lifecycle, tx_hash, received_timestamp) ==
    IF tx_hash \notin DOMAIN lifecycle
    THEN MapPut(lifecycle, tx_hash,
                [ received_timestamp |-> received_timestamp,
                  included_timestamp |-> Null,
                  block_index        |-> Null ])
    ELSE [lifecycle EXCEPT ![tx_hash].received_timestamp =
             SqlMin(Coalesce(@, received_timestamp), received_timestamp)]

\* the statement of _save_transactions on transaction_lifecycle for one
\* transaction: INSERT, and ON CONFLICT received_timestamp =
\* COALESCE(old, new, included)
MarkIncluded(lifecycle, tx, block_index, block_timestamp) ==
    LET tx_hash == _hash_data(json_dumps(tx))
        timestamp == IF "timestamp" \in DOMAIN tx THEN tx.timestamp ELSE block_timestamp
    IN  IF tx_hash \notin DOMAIN lifecycle
        THEN MapPut(lifecycle, tx_hash,
                    [ received_timestamp |-> timestamp,
                      included_timestamp |-> block_timestamp,
                      block_index        |-> block_index ])
        ELSE [lifecycle EXCEPT
                ![tx_hash].included_timestamp = block_timestamp,
                ![tx_hash].block_index = block_index,
                ![tx_hash].received_timestamp =
                    Coalesce(@, Coalesce(timestamp, block_timestamp))]

\* _save_transactions(cursor, block_index, transactions, block_timestamp)
\* on transaction_lifecycle
RECURSIVE _save_transactions(_, _, _, _)
_save_transactions(lifecycle, block_index, transactions, block_timestamp) ==
    IF transactions = <<>> THEN lifecycle
    ELSE _save_transactions(
             MarkIncluded(lifecycle, Head(transactions), block_index, block_timestamp),
             block_index, Tail(transactions), block_timestamp)

\* the timestamps handed to the database
DbStamps == 1..MaxStamp

\* the transactions handed to the database: one without a timestamp of its
\* own and one stamped by its sender
DbTxs == { [a |-> 1], [a |-> 1, timestamp |-> MaxStamp] }

\* storage.record_tx_received(tx_hash, received_timestamp)
DbRecordTxReceived ==
    /\ \E tx \in DbTxs, received_timestamp \in DbStamps :
         LET tx_hash == _hash_data(json_dumps(tx))
         IN  /\ db' = [db EXCEPT !.transaction_lifecycle =
                          record_tx_received(@, tx_hash, received_timestamp)]
             /\ db_recorded' =
                  MapPut(db_recorded, tx_hash,
                         (IF tx_hash \in DOMAIN db_recorded
                          THEN db_recorded[tx_hash] ELSE {})
                         \cup {received_timestamp})
    /\ UNCHANGED notDb

\* storage.save_block(block): the row of the block, then _save_transactions
DbSaveBlock ==
    /\ \E transactions \in SeqsUpTo(DbTxs, 2), timestamp \in DbStamps :
         LET block == Block(1, timestamp, transactions, ZeroHash, GenesisValidator,
                            NoReadings)
         IN  db' = [ blocks |-> save_block(db.blocks, block),
                     transaction_lifecycle |->
                         _save_transactions(db.transaction_lifecycle, block.block_index,
                                            block.transactions, block.timestamp) ]
    /\ UNCHANGED db_recorded
    /\ UNCHANGED notDb

(***************************************************************************)
(* The specifications.                                                     *)
(***************************************************************************)
InitMerkle == MerkleInit /\ EngIdle /\ NetIdle /\ DbIdle /\ ClockInit

NextMerkle == MBuild \/ MGetProof \/ MSupplyProof \/ MVerify

SpecMerkle == InitMerkle /\ [][NextMerkle]_vars

\* the delegate update interval passes
EngTickInterval == EngTick(Seconds(DelegateUpdateInterval))

\* the liveness threshold passes
EngTickLiveness == EngTick(Seconds(LivenessThreshold))

InitDPoS == EngInit /\ MerkleIdle /\ NetIdle /\ DbIdle /\ ClockInit

NextDPoS ==
    \/ EngTickInterval
    \/ EngAddValidator
    \/ EngRemoveValidator
    \/ EngUpdateStake
    \/ EngUpdateDelegates

SpecDPoS == InitDPoS /\ [][NextDPoS]_vars

\* a database that is handed transactions and blocks in any order
InitLifecycle == DbIdle /\ MerkleIdle /\ EngIdle /\ NetIdle /\ ClockInit

NextLifecycle ==
    \/ DbRecordTxReceived
    \/ DbSaveBlock

SpecLifecycle == InitLifecycle /\ [][NextLifecycle]_vars

\* the validators of the engine that is captured and restored
CheckpointIds == {1, 2}

\* an engine with a short roster whose state is captured and restored
\* between changes of the roster
InitCheckpoint ==
    /\ eng = DPoS_init(SmallRoster, FALSE)
    /\ eng_view = EmptyMap
    /\ eng_call = NoCall
    /\ MerkleIdle /\ NetIdle /\ DbIdle /\ ClockInit

NextCheckpoint ==
    \/ EngAddValidatorAmong(CheckpointIds)
    \/ EngRemoveValidatorAmong(CheckpointIds)
    \/ EngUpdateStakeAmong(CheckpointIds)
    \/ EngUpdateDelegates
    \/ EngCreateCheckpoint
    \/ EngRestoreFromCheckpoint

SpecCheckpoint == InitCheckpoint /\ [][NextCheckpoint]_vars

\* an engine that gets status messages between changes of its roster
NextBlockTime ==
    \/ EngHandleNetworkStatus
    \/ EngAddValidatorAmong(CheckpointIds)
    \/ EngRemoveValidatorAmong(CheckpointIds)

SpecBlockTime == InitCheckpoint /\ [][NextBlockTime]_vars

NextLeader ==
    \/ EngTickLiveness
    \/ EngAddValidator
    \/ EngUpdateDelegates
    \/ EngRecordMetrics
    \/ EngGetCurrentValidator

SpecLeader == InitDPoS /\ [][NextLeader]_vars

\* validate_block put to an engine with a short roster
InitValidate == EngInit /\ eng.max_validators = SmallRoster /\ MerkleIdle /\ NetIdle /\ DbIdle /\ ClockInit

NextValidate ==
    \/ EngAddValidator
    \/ EngUpdateDelegates
    \/ EngRecordMetrics
    \/ EngValidateBlock

SpecValidate == InitValidate /\ [][NextValidate]_vars

\* a short wait: the block time passes
NetTickBlockTime == NetTick(Seconds(BlockTimeDefault))

\* a long wait: the liveness threshold passes
NetTickLiveness == NetTick(Seconds(LivenessThreshold))

Init == NetInit /\ MerkleIdle /\ EngIdle /\ DbIdle /\ ClockInit

Next ==
    \/ NetTickBlockTime
    \/ NetTickLiveness
    \/ \E n \in NetNodes : PublishMetrics(n)
    \/ \E n \in NetNodes : HandleIncomingMetrics(n)
    \/ \E n \in NetNodes : HandleNewTransaction(n)
    \/ \E n \in NetNodes : HandleNewBlockCheck(n)
    \/ \E n \in NetNodes : HandleNewBlockAppend(n)
    \/ \E n \in NetNodes : ProposerCrash(n)
    \/ \E n \in NetNodes : ProposerPublish(n)
    \/ \E n \in NetNodes : ProposerAppend(n)
    \/ \E n \in NetNodes : ProposerClear(n)
    \/ \E n \in NetNodes : SyncBegin(n)
    \/ \E n \in NetNodes : SyncResponse(n)

Spec == Init /\ [][Next]_vars

\* the pending pool of the nodes: transactions come in and the proposer
\* seals them, on a database that may fail; no block is handled
NextPool ==
    \/ NetTickBlockTime
    \/ \E n \in NetNodes : HandleNewTransactionPool(n)
    \/ \E n \in NetNodes : ProposerPublish(n)
    \/ \E n \in NetNodes : ProposerAppend(n)
    \/ \E n \in NetNodes : ProposerStoreFails(n)
    \/ \E n \in NetNodes : ProposerClear(n)
    \/ \E n \in NetNodes : SyncBegin(n)
    \/ \E n \in NetNodes : SyncResponse(n)

SpecPool == Init /\ [][NextPool]_vars

\* the sync rounds of one node with two peers that answer what they like or
\* nothing
NextSync ==
    \/ \E n \in SyncNodes : SyncBeginWide(n)
    \/ \E n \in SyncNodes : SyncAnswer(n)
    \/ \E n \in SyncNodes : SyncNoAnswer(n)
    \/ \E n \in SyncNodes : SyncProcess(n)

SpecSync == Init /\ [][NextSync]_vars

\* the sync rounds under the scheduling of the program: the client of
\* main.py line 71 ends every GET within its timeout, with an answer or an
\* error, and the loop over an answer is finite
SpecSyncFair ==
    /\ SpecSync
    /\ WF_vars(\E n \in SyncNodes : SyncNoAnswer(n) \/ SyncAnswer(n))
    /\ WF_vars(\E n \in SyncNodes : SyncProcess(n))

\* the nodes seal blocks and catch up from the databases of their peers; no
\* block is handled from the broker
NextCatchUp ==
    \/ NetTickBlockTime
    \/ \E n \in NetNodes : HandleNewTransaction(n)
    \/ \E n \in NetNodes : ProposerPublish(n)
    \/ \E n \in NetNodes : ProposerAppend(n)
    \/ \E n \in NetNodes : ProposerClear(n)
    \/ \E n \in NetNodes : SyncBegin(n)
    \/ \E n \in NetNodes : SyncFetch(n)
    \/ \E n \in NetNodes : SyncNoAnswer(n)
    \/ \E n \in NetNodes : SyncProcess(n)

SpecCatchUp == Init /\ [][NextCatchUp]_vars

\* blocks come to one node from the broker and in the answers of its peers
\* while status messages move its block time
NextFresh ==
    \/ NetTickBlockTime
    \/ \E n \in SyncNodes : PeerBlock(n)
    \/ \E n \in SyncNodes : HandleNetworkStatus(n)
    \/ \E n \in SyncNodes : HandleNewBlockCheck(n)
    \/ \E n \in SyncNodes : HandleNewBlockAppend(n)
    \/ \E n \in SyncNodes : SyncBegin(n)
    \/ \E n \in SyncNodes : SyncAnswerLinked(n)
    \/ \E n \in SyncNodes : SyncNoAnswer(n)
    \/ \E n \in SyncNodes : SyncProcess(n)

SpecFresh == Init /\ [][NextFresh]_vars

\* half the liveness threshold passes; a process runs start() as soon as
\* the node is constructed, and its heartbeat loop sleeps metrics_interval
\* between two rounds (line 451), far less than that: every process that
\* runs has started and has stamped its entry before the clock moves
BeatTick ==
    /\ ticks < MaxBeats
    /\ \A n \in NetNodes :
         alive[n] => Connected(n) /\ all_nodes_metrics[n][n] = now
    /\ now' = now + Seconds(LivenessThreshold) \div 2
    /\ ticks' = ticks + 1
    /\ UNCHANGED netVars
    /\ UNCHANGED notNet

\* the delegate scheduled for the block after the genesis block while every
\* delegate is live: position (0 + 1) mod n of the roster in id order
FirstLeader ==
    sorted(RASPBERRY_PI_NODES)[(1 % Len(RASPBERRY_PI_NODES)) + 1]

\* the other nodes of the roster
Standbys == NetNodes \ {FirstLeader}

\* the process of node c ends (power loss, kill): its tasks take no more
\* steps and it publishes no more heartbeats; the other nodes go on
NodeStops(c) ==
    /\ \A n \in NetNodes : alive[n]
    /\ alive' = [alive EXCEPT ![c] = FALSE]
    /\ UNCHANGED <<blocks, storage, pending_transactions, all_nodes_metrics, dpos,
                   loop, mqtt, blocks_topic, metrics_topic, clockVars>>
    /\ UNCHANGED notNet

\* start(): the first synchronisation of a node, which connects it
SyncBoot(n) == loop[n].pc = "new" /\ SyncBegin(n)

\* one step of the proposer task of node n
ProposerStep(n) == ProposerAppend(n) \/ ProposerClear(n) \/ ProposerPublish(n)

\* the first leader seals nothing: it fails its health gate in every round
\* (lines 478-481), and it may stop for good; all nodes publish heartbeats,
\* which the standbys receive and seal into blocks when they lead
NextRotate ==
    \/ BeatTick
    \/ NodeStops(FirstLeader)
    \/ \E n \in NetNodes : SyncBoot(n)
    \/ \E n \in NetNodes : SyncNoAnswer(n)
    \/ \E n \in NetNodes : PublishMetrics(n)
    \/ \E n \in Standbys : HandleIncomingMetrics(n)
    \/ \E n \in Standbys : ProposerPublish(n)
    \/ \E n \in Standbys : ProposerAppend(n)
    \/ \E n \in Standbys : ProposerClear(n)

\* heartbeats become pending transactions at every node; the leaders seal
\* them and the blocks reach the other nodes through the broker
NextCommit ==
    \/ BeatTick
    \/ \E n \in NetNodes : SyncBoot(n)
    \/ \E n \in NetNodes : SyncNoAnswer(n)
    \/ \E n \in NetNodes : PublishMetrics(n)
    \/ \E n \in NetNodes : HandleIncomingMetrics(n)
    \/ \E n \in NetNodes : ProposerPublish(n)
    \/ \E n \in NetNodes : ProposerAppend(n)
    \/ \E n \in NetNodes : ProposerClear(n)
    \/ \E n \in NetNodes : HandleNewBlockCheck(n)
    \/ \E n \in NetNodes : HandleNewBlockAppend(n)

SpecCommit == Init /\ [][NextCommit]_vars

SpecRotate == Init /\ [][NextRotate]_vars

\* the same under the scheduling of the program: the proposer task of a
\* running node is resumed by the event loop after every sleep (lines 474,
\* 480, 562), so a round that can seal a block is taken
SpecRotateFair ==
    /\ SpecRotate
    /\ \A n \in Standbys : WF_loop(ProposerStep(n))

\* the inbound side of the nodes, with publishers outside the roster on the
\* blocks topic
NextInbound ==
    \/ NetTickBlockTime
    \/ ForeignBlock
    \/ \E n \in NetNodes : HandleNewBlockCheck(n)
    \/ \E n \in NetNodes : HandleNewBlockAppend(n)
    \/ \E n \in NetNodes : SyncBegin(n)
    \/ \E n \in NetNodes : SyncResponse(n)

SpecInbound == Init /\ [][NextInbound]_vars

(***************************************************************************)
(* Claims about the chains of the network (checked under Spec).            *)
(***************************************************************************)
\* s is a prefix of t
IsPrefix(s, t) == Len(s) <= Len(t) /\ SubSeq(t, 1, Len(s)) = s

\* C1: in every reachable state, for any two nodes the local chain of one
\* is a prefix of the local chain of the other: no two nodes hold different
\* blocks at the same position.
Agreement ==
    \A a \in NetNodes, b \in NetNodes :
        IsPrefix(blocks[a], blocks[b]) \/ IsPrefix(blocks[b], blocks[a])

\* C2: in every reachable state of a node, every block of the local chain
\* other than the first has previous_hash equal to the hash of the block
\* before it and a timestamp strictly greater than that block's.
ChainLinkage ==
    \A n \in NetNodes : \A k \in 2..Len(blocks[n]) :
        /\ blocks[n][k].previous_hash = blocks[n][k - 1].hash
        /\ blocks[n][k].timestamp > blocks[n][k - 1].timestamp

\* C3: in every reachable state no block hash occurs at two positions of a
\* node's local chain.
NoBlockAppendedTwice ==
    \A n \in NetNodes : \A j \in 1..Len(blocks[n]), k \in 1..Len(blocks[n]) :
        j # k => blocks[n][j].hash # blocks[n][k].hash

\* the block with this index, timestamp and hash is the tail of node n
TailIs(n, index, timestamp, hash) ==
    /\ Last(blocks[n]).block_index = index
    /\ Last(blocks[n]).timestamp = timestamp
    /\ Last(blocks[n]).hash = hash

\* C4: whenever the proposer or the inbound block handler appends its
\* candidate, the tail index, tail timestamp and tail hash the candidate was
\* built or checked against belong to one block, and that block is still
\* the tail: an appender whose tail has changed drops its candidate.
RacingAppenders ==
    [][\A n \in NetNodes :
         /\ (loop[n].pc = "published" /\ loop'[n].pc = "appended") =>
                TailIs(n, loop[n].previous_block_index,
                       loop[n].previous_block_timestamp,
                       loop[n].new_block.previous_hash)
         /\ (mqtt[n].pc = "append" /\ mqtt'[n].pc = "idle") =>
                TailIs(n, mqtt[n].previous_block_index,
                       mqtt[n].previous_block_timestamp,
                       mqtt[n].block.previous_hash)]_vars

(***************************************************************************)
(* Reference definitions the Merkle claims are stated against.             *)
(***************************************************************************)
\* ceil(n / 2): the size of the level above a level of n nodes
HalfUp(n) == (n + 1) \div 2

\* the number of nodes of level k (level 0 holds the n leaves)
RECURSIVE LevelSize(_, _)
LevelSize(n, k) == IF k = 0 THEN n ELSE HalfUp(LevelSize(n, k - 1))

\* the number of levels below the root of a tree of n leaves
RECURSIVE LevelsBelowRoot(_)
LevelsBelowRoot(n) == IF n <= 1 THEN 0 ELSE 1 + LevelsBelowRoot(HalfUp(n))

\* the hash of node j (1-based) of level k: hash(left || right), the
\* rightmost node of an odd level being paired with itself
RECURSIVE RefNode(_, _, _)
RefNode(txs, k, j) ==
    IF k = 0 THEN <<"sha256", json_dumps(txs[j])>>
    ELSE LET below == LevelSize(Len(txs), k - 1)
             l == 2 * j - 1
             r == IF 2 * j <= below THEN 2 * j ELSE l
         IN  <<"sha256", <<"cat", RefNode(txs, k - 1, l), RefNode(txs, k - 1, r)>>>>

\* the reference Merkle root
RefRoot(txs) ==
    IF Len(txs) = 0 THEN <<"zero">>
    ELSE RefNode(txs, LevelsBelowRoot(Len(txs)), 1)

\* m_idx names a transaction of m_txs
IdxInRange == m_idx >= 0 /\ m_idx < Len(m_txs)

\* the position (1-based) at level k of the node above leaf i (0-based)
RECURSIVE PathPos(_, _)
PathPos(i, k) == IF k = 0 THEN i + 1 ELSE HalfUp(PathPos(i, k - 1))

(***************************************************************************)
(* Claims about the Merkle tree (checked under SpecMerkle).                *)
(***************************************************************************)
\* C5: for every non-empty list txs and every i in range,
\* verify(txs[i], proof(txs, i), root(txs)) returns true.
MerkleProofCompleteness ==
    (m_pc = "verified" /\ IdxInRange /\ m_tx = m_txs[m_idx + 1]) => m_ok

\* C6: the proof of a leaf in range has exactly one descriptor per level
\* below the root, and where the leaf's path passes through the unpaired
\* rightmost node of an odd level the descriptor carries that node's own hash.
OddLevelDescriptorPresent ==
    (m_pc = "proved" /\ IdxInRange) =>
        /\ Len(m_proof) = LevelsBelowRoot(Len(m_txs))
        /\ \A k \in 1..Len(m_proof) :
             LET size == LevelSize(Len(m_txs), k - 1)
                 pos  == PathPos(m_idx, k - 1)
             IN  (size % 2 = 1 /\ pos = size) =>
                     m_proof[k].hash = RefNode(m_txs, k - 1, pos)

\* C7: verify(tx, proof(txs, i), root(txs)) is false for every tx whose
\* canonical form differs from that of txs[i]; against the root of the empty
\* list every proof verifies false.
MerkleProofSoundness ==
    /\ (m_pc = "verified" /\ IdxInRange
            /\ json_dumps(m_tx) # json_dumps(m_txs[m_idx + 1])) => ~ m_ok
    /\ (m_pc \in {"verified", "checked"} /\ Len(m_txs) = 0) => ~ m_ok

\* C7 witness: a proof of several levels was verified against another
\* transaction of the same list and was rejected.
MerkleProofSoundnessWitness ==
    /\ m_pc = "verified" /\ IdxInRange
    /\ Len(m_proof) >= 2
    /\ json_dumps(m_tx) # json_dumps(m_txs[m_idx + 1])
    /\ \E j \in 1..Len(m_txs) : m_txs[j] = m_tx
    /\ ~ m_ok

\* C8: root(txs) equals the reference root: "0"*64 for the empty list, the
\* leaf hash for one transaction, else the level by level pairing.
MerkleRootReference ==
    m_pc # "new" => m_root = RefRoot(m_txs)

\* C8 witness: a tree over five transactions (odd levels of 5 and 3 nodes)
\* has been built.
MerkleRootReferenceWitness ==
    /\ m_pc = "built"
    /\ Len(m_txs) = 5
    /\ m_root = RefRoot(m_txs)
    /\ m_root # ZeroHash

\* C9: proof(txs, i) returns the empty list for every i outside
\* 0..len(txs)-1 (i >= len(txs), negative i, any i when txs is empty).
ProofOutOfRangeEmpty ==
    (m_pc \in {"proved", "raised"} /\ ~ IdxInRange) =>
        (m_pc = "proved" /\ m_proof = <<>>)


(***************************************************************************)
(* Claims about leader selection (checked under SpecLeader).               *)
(***************************************************************************)
\* the delegates that count as live: all of them without a liveness view
LiveDelegates ==
    { d \in Range(eng.delegates) :
        eng.has_metrics =>
            (d \in DOMAIN eng_view /\ now - eng_view[d] < Seconds(LivenessThreshold)) }

\* the live delegate with exactly k live delegates of smaller id
LiveDelegateOfRank(k) ==
    CHOOSE d \in LiveDelegates : Cardinality({ x \in LiveDelegates : x < d }) = k

\* C10: current_validator(ref_index, view) is none when the delegate list is
\* empty or no delegate is live; otherwise it is the element at position
\* (ref_index + 1) mod n of the n live delegates in ascending id order.  With
\* three equally staked live validators 1, 2, 3 the results for ref_index
\* -1, 0, 1, 2 are 1, 2, 3, 1.
LeaderSelection ==
    eng_call.op = "get_current_validator" =>
        /\ LiveDelegates = {} => eng_call.ret = NoneId
        /\ LiveDelegates # {} =>
             eng_call.ret =
                 LiveDelegateOfRank((eng_call.arg + 1) % Cardinality(LiveDelegates))
        /\ LiveDelegates = {1, 2, 3} =>
             eng_call.ret = <<1, 2, 3, 1>>[eng_call.arg + 2]

\* C10 witness: the leader was asked for while one delegate of three was not
\* live, the list of delegates was not in id order, and a live one was returned.
LeaderSelectionWitness ==
    /\ eng_call.op = "get_current_validator"
    /\ eng.has_metrics
    /\ Len(eng.delegates) = 3
    /\ eng.delegates # sorted(eng.delegates)
    /\ Cardinality(LiveDelegates) = 2
    /\ eng_call.arg = 1
    /\ eng_call.ret \in LiveDelegates


\* C11: with a liveness view, current_validator never returns a delegate
\* that has no entry in the view or was last seen liveness_threshold or
\* longer ago, and every delegate last seen less than liveness_threshold ago
\* is returned for some reference index: it is part of the rotation.
LivenessFilter ==
    (eng_call.op = "get_current_validator" /\ eng.has_metrics) =>
        /\ eng_call.ret # NoneId =>
             /\ eng_call.ret \in DOMAIN eng_view
             /\ now - eng_view[eng_call.ret] < Seconds(LivenessThreshold)
        /\ \A d \in Range(eng.delegates) :
             (d \in DOMAIN eng_view
                /\ now - eng_view[d] < Seconds(LivenessThreshold)) =>
                 \E ref \in 0..(Len(eng.delegates) - 1) :
                     get_current_validator(eng, eng_view, now, ref) = d

\* C11 witness: of three delegates one has no entry in the view, one was
\* last seen exactly liveness_threshold ago and one is live and returned.
LivenessFilterWitness ==
    /\ eng_call.op = "get_current_validator"
    /\ eng.has_metrics
    /\ Len(eng.delegates) = 3
    /\ \E d \in Range(eng.delegates) : d \notin DOMAIN eng_view
    /\ \E d \in Range(eng.delegates) :
         d \in DOMAIN eng_view /\ now - eng_view[d] = Seconds(LivenessThreshold)
    /\ eng_call.ret # NoneId
    /\ now - eng_view[eng_call.ret] < Seconds(LivenessThreshold)


\* a second engine with the validator-to-stake mapping of eng that
\* recomputed its delegate list at the current time
RecomputedPeer == _update_delegates(eng, TRUE, now)

\* C12: two engines with the same validator-to-stake mapping and the same
\* liveness view return the same current_validator for the same reference
\* index at the same time, whenever each last recomputed its delegate list.
DeterminismAcrossNodes ==
    eng_call.op = "get_current_validator" =>
        /\ RecomputedPeer.validators = eng.validators
        /\ get_current_validator(RecomputedPeer, eng_view, now, eng_call.arg) = eng_call.ret


\* the delegate list d is a schedule of the validator map: ids of the map,
\* none repeated, higher stake first and smaller id first among equal
\* stakes, every validator left out ranking after every one kept, and as
\* many entries as the map has, at most limit
IsDelegateSchedule(d, validators, limit) ==
    /\ Len(d) = IF Cardinality(DOMAIN validators) < limit
                THEN Cardinality(DOMAIN validators) ELSE limit
    /\ \A i \in 1..Len(d) : d[i] \in DOMAIN validators
    /\ \A i, j \in 1..Len(d) :
         i < j => /\ d[i] # d[j]
                  /\ validators[d[i]] >= validators[d[j]]
                  /\ validators[d[i]] = validators[d[j]] => d[i] < d[j]
    /\ \A v \in DOMAIN validators \ Range(d) :
         \A i \in 1..Len(d) :
             /\ validators[d[i]] >= validators[v]
             /\ validators[d[i]] = validators[v] => d[i] < v

\* C13: immediately after a forced delegate recomputation the delegate list
\* equals the validator ids ordered by stake descending and then id
\* ascending, cut to the first max_validators entries, with no id repeated.
DelegateSchedule ==
    (eng_call.op = "_update_delegates" /\ eng_call.arg = 1) =>
        IsDelegateSchedule(eng.delegates, eng.validators, eng.max_validators)

\* C13 witness: a forced recomputation over three validators where the
\* highest stake belongs to the largest id and the other two stakes tie.
DelegateScheduleWitness ==
    /\ eng_call.op = "_update_delegates"
    /\ eng_call.arg = 1
    /\ eng.delegates = <<3, 1, 2>>
    /\ eng.validators[3] > eng.validators[1]
    /\ eng.validators[1] = eng.validators[2]


\* C14: right after remove_validator or update_stake returns true the
\* delegate list equals the stake-ordered list of the current validators;
\* a removed validator is no longer a delegate and is not returned by
\* current_validator.
RemoveAndUpdateRecompute ==
    (eng_call.op \in {"remove_validator", "update_stake"} /\ eng_call.ret = TRUE) =>
        /\ IsDelegateSchedule(eng.delegates, eng.validators, eng.max_validators)
        /\ eng_call.op = "remove_validator" =>
             /\ eng_call.arg \notin Range(eng.delegates)
             /\ \A ref \in RefIndices :
                  get_current_validator(eng, eng_view, now, ref) # eng_call.arg


\* C15: validate_block returns true if and only if the block's validator is
\* a delegate, it is current_validator(prev_index), the block's timestamp is
\* greater than prev_ts - sync_tolerance, its index is greater than
\* prev_index, its timestamp is within block_time of now, its merkle_root is
\* non-empty and equals the root rebuilt from its transactions with as many
\* leaves as transactions, and power_usage is at most energy_threshold; the
\* call changes no state of the engine.
ValidateBlockIff ==
    eng_call.op = "validate_block" =>
        LET a == eng_call.arg
            b == a.block
        IN  /\ eng = a.dpos
            /\ eng_call.ret <=>
                 /\ \E i \in 1..Len(eng.delegates) : eng.delegates[i] = b.validator
                 /\ LiveDelegates # {}
                 /\ b.validator = LiveDelegateOfRank(
                        (a.previous_block_index + 1) % Cardinality(LiveDelegates))
                 /\ b.timestamp > a.previous_block_timestamp - a.sync_tolerance
                 /\ b.block_index > a.previous_block_index
                 /\ now - b.timestamp <= eng.block_time
                 /\ b.timestamp - now <= eng.block_time
                 /\ b.merkle_root # EmptyRoot
                 /\ b.merkle_root = RefRoot(b.transactions)
                 /\ Len(leaf_nodes(b.transactions)) = Len(b.transactions)
                 /\ a.power_usage <= EnergyThreshold

\* C15 witness: a block is accepted at the edge of every bound: stamped
\* block_time before now and exactly at prev_ts under a positive tolerance,
\* under a power usage equal to energy_threshold, by an engine whose
\* liveness view holds a delegate that is not live.
ValidateBlockWitness ==
    /\ eng_call.op = "validate_block"
    /\ eng_call.ret = TRUE
    /\ eng.has_metrics
    /\ \E d \in Range(eng.delegates) : d \notin LiveDelegates
    /\ now - eng_call.arg.block.timestamp = eng.block_time
    /\ eng_call.arg.block.timestamp = eng_call.arg.previous_block_timestamp
    /\ eng_call.arg.sync_tolerance > 0
    /\ eng_call.arg.power_usage = EnergyThreshold


\* C16: a block dictionary whose merkle_root entry differs from the Merkle
\* root rebuilt over its transactions is never appended to the local chain:
\* every append by the block handler is of a dictionary whose merkle_root
\* is the root of its transactions.
MalformedBlockNeverAppended ==
    [][\A n \in NetNodes :
         (mqtt[n].pc = "append" /\ blocks'[n] = Append(blocks[n], mqtt[n].block)) =>
             mqtt[n].block_data.merkle_root
                 = get_root_hash(mqtt[n].block_data.transactions)]_vars


\* C17: a node seals a block only if, for the chain tail at the moment the
\* block is appended and at the time the block was stamped,
\* current_validator(tail.index) is the node itself, the time is at least
\* tail.timestamp + block_time and the pending pool is non-empty.
ProposerGating ==
    [][\A n \in NetNodes :
         (loop[n].pc = "published" /\ loop'[n].pc = "appended") =>
             LET tail == Last(blocks[n])
                 sealed_at == loop[n].new_block.timestamp
             IN  /\ get_current_validator(dpos[n], all_nodes_metrics[n], sealed_at,
                                          tail.block_index) = n
                 /\ sealed_at >= tail.timestamp + dpos[n].block_time
                 /\ pending_transactions[n] # <<>>]_vars


\* C18: every block sealed by the proposer has index = tail.index + 1,
\* previous_hash = tail.hash, validator = the node's own id and a timestamp
\* strictly greater than tail.timestamp, where tail is the last block of the
\* local chain at the moment the sealed block is appended.
SealedBlockFields ==
    [][\A n \in NetNodes :
         (loop[n].pc = "published" /\ loop'[n].pc = "appended") =>
             LET tail == Last(blocks[n])
                 sealed == Last(blocks'[n])
             IN  /\ sealed.block_index = tail.block_index + 1
                 /\ sealed.previous_hash = tail.hash
                 /\ sealed.validator = n
                 /\ sealed.timestamp > tail.timestamp]_vars


\* C19: a sealed block carries the first min(10, n) transactions of the
\* pending pool in arrival order, and exactly those transactions are removed
\* from the pool after sealing: the pool before the removal is the block's
\* transactions followed by the pool after it, so that a transaction that
\* arrived while the block was being sealed is still in the pool.
PendingPoolFIFO ==
    [][\A n \in NetNodes :
         /\ (loop[n].pc = "idle" /\ loop'[n].pc = "published") =>
              /\ Len(loop'[n].new_block.transactions)
                   = IF Len(pending_transactions[n]) < BlockTxLimit
                     THEN Len(pending_transactions[n]) ELSE BlockTxLimit
              /\ \A j \in 1..Len(loop'[n].new_block.transactions) :
                   loop'[n].new_block.transactions[j] = pending_transactions[n][j]
         /\ (loop[n].pc = "appended" /\ loop'[n].pc = "idle") =>
              pending_transactions[n]
                  = loop[n].new_block.transactions \o pending_transactions'[n]]_vars


\* C20: when current_validator returns none, the proposer yields for that
\* tick and keeps running: no step taken while the node has no leader ends
\* the node's process.
ProposerSurvivesNoLeader ==
    [][\A n \in NetNodes :
         (alive[n] /\ loop[n].pc = "idle" /\ CurrentValidator(n) = NoneId) =>
             alive'[n]]_vars


\* C21: an error raised inside one tick of a duty ends only that tick: the
\* proposer tick that has published its block and persists it, with or
\* without a storage failure, leaves the node's process running, so that the
\* duties have their next ticks.
FailureIsolation ==
    [][\A n \in NetNodes :
         (alive[n] /\ loop[n].pc = "published" /\ loop'[n].pc \in {"published", "appended"}) =>
             alive'[n]]_vars


(***************************************************************************)
(* Claims about peer sync (checked under SpecSync).                        *)
(***************************************************************************)
\* the chain after a peer's answer under the rule of the tail: an entry is
\* appended if and only if it is a block whose index and timestamp exceed
\* those of the last block of the chain as it is then and whose
\* previous_hash is that block's hash
RECURSIVE SyncByTail(_, _)
SyncByTail(chain, answer) ==
    IF answer = <<>> THEN chain
    ELSE LET d == Head(answer)
             tail == chain[Len(chain)]
             taken == /\ BlockKeys \subseteq DOMAIN d
                      /\ d.block_index > tail.block_index
                      /\ d.timestamp > tail.timestamp
                      /\ d.previous_hash = tail.hash
         IN  SyncByTail(IF taken THEN Append(chain, from_dict(d)) ELSE chain,
                        Tail(answer))

Continuous(chain, d) ==
    /\ Parsable(d)
    /\ d.block_index > Last(chain).block_index
    /\ d.timestamp > Last(chain).timestamp
    /\ d.previous_hash = Last(chain).hash

\* the chain after an answer when the work on the answer ends at the first
\* block that fails the continuity check
RECURSIVE SyncUntilBreak(_, _)
SyncUntilBreak(chain, answer) ==
    IF answer = <<>> THEN chain
    ELSE IF Parsable(Head(answer)) /\ ~ Continuous(chain, Head(answer))
    THEN chain
    ELSE SyncUntilBreak(IF Parsable(Head(answer))
                        THEN Append(chain, from_dict(Head(answer)))
                        ELSE chain,
                        Tail(answer))

\* C23: while a node works through one peer's answer, once a block of the
\* answer fails the continuity check no later block of that answer is
\* appended.
SyncStopsAtBreak ==
    [][\A n \in SyncNodes :
         (loop[n].pc = "answered" /\ loop'[n].pc # "answered") =>
             blocks'[n] = SyncUntilBreak(blocks[n], loop[n].blocks_data)]_vars


\* the chain a database holds: its rows by block_index, each one as a block
StoredChain(st) ==
    LET rows == RowsFrom(st, 0)
    IN  [j \in 1..Len(rows) |-> from_dict(rows[j])]

\* every block of the chain but the first names the hash of the one before
Linked(chain) ==
    \A j \in 2..Len(chain) : chain[j].previous_hash = chain[j - 1].hash

\* the node works through the answer of a peer whose database still holds
\* what it answered, and the node's chain is a proper prefix of the chain of
\* that database
CatchUpCase(n) ==
    LET peer == Head(loop[n].peers)
    IN  /\ loop[n].pc = "answered"
        /\ loop[n].blocks_data = get_blocks(storage[peer], loop[n].local_chain_length)
        /\ loop[n].local_chain_length = Len(blocks[n])
        /\ IsPrefix(blocks[n], StoredChain(storage[peer]))
        /\ blocks[n] # StoredChain(storage[peer])

AllUnparsable(answer) ==
    answer # <<>> /\ \A j \in 1..Len(answer) : ~ Parsable(answer[j])

\* the step of node n ends its dealing with a peer that failed: the GET
\* came back with no answer, or the answer held no block that can be read
FailedPeerStep(n) ==
    \/ loop[n].pc = "sync" /\ loop'[n] # loop[n] /\ loop'[n].pc # "answered"
    \/ /\ loop[n].pc = "answered"
       /\ loop'[n].pc # "answered"
       /\ AllUnparsable(loop[n].blocks_data)

CheckpointEveryInterval ==
    \A n \in NetNodes :
        \A j \in 1..Len(blocks[n]) :
            (blocks[n][j].block_index > 0
               /\ blocks[n][j].block_index % dpos[n].checkpoint_interval = 0) =>
                blocks[n][j].block_index \in DOMAIN dpos[n].checkpoints


\* the operations that change the roster or the delegates
RosterOps == {"add_validator", "remove_validator", "update_stake", "_update_delegates"}

\* C27: create_checkpoint(h) stores a snapshot only when h is a multiple of
\* checkpoint_interval, and the snapshot holds the delegates and validators
\* of that moment; add_validator, remove_validator, update_stake and the
\* recomputation of the delegates leave every snapshot as it is, and so
\* does a restore; restore_from_checkpoint(h) of a stored height returns
\* true and makes the delegates and validators those of the snapshot;
\* restore of a height with no checkpoint returns false and changes
\* nothing.
CheckpointRoundTrip ==
    [][LET h == eng_call'.arg
       IN  /\ eng_call'.op \in RosterOps => eng'.checkpoints = eng.checkpoints
           /\ eng_call'.op = "create_checkpoint" =>
                IF h % eng.checkpoint_interval = 0
                THEN /\ DOMAIN eng'.checkpoints = DOMAIN eng.checkpoints \cup {h}
                     /\ eng'.checkpoints[h].delegates = eng.delegates
                     /\ eng'.checkpoints[h].validators = eng.validators
                     /\ \A g \in DOMAIN eng.checkpoints \ {h} :
                          eng'.checkpoints[g] = eng.checkpoints[g]
                     /\ eng'.delegates = eng.delegates
                     /\ eng'.validators = eng.validators
                ELSE eng' = eng
           /\ eng_call'.op = "restore_from_checkpoint" =>
                IF h \in DOMAIN eng.checkpoints
                THEN /\ eng_call'.ret = TRUE
                     /\ eng'.delegates = eng.checkpoints[h].delegates
                     /\ eng'.validators = eng.checkpoints[h].validators
                     /\ eng'.checkpoints = eng.checkpoints
                ELSE eng_call'.ret = FALSE /\ eng' = eng]_<<eng, eng_call.op, eng_call.arg>>

\* C27 witness: a snapshot that holds validators and delegates has been
\* restored.
CheckpointRoundTripWitness ==
    /\ eng_call.op = "restore_from_checkpoint"
    /\ eng_call.ret = TRUE
    /\ eng.validators # EmptyMap
    /\ eng.delegates # <<>>
    /\ \E a \in CheckpointIds : a \in DOMAIN eng.validators /\ eng.validators[a] = 2 * InitialStake
    /\ eng.checkpoints[eng_call.arg].timestamp = now


(***************************************************************************)
(* Claims about the roster (checked under SpecDPoS).                       *)
(***************************************************************************)
\* C28: add_validator(id, stake) returns false and leaves validators and
\* delegates as they were when the roster already holds max_validators
\* entries; otherwise it returns true and afterwards validators[id] = stake,
\* every other entry being as before.  The roster never holds more than
\* max_validators entries.
AddValidatorCapacity ==
    /\ [][eng_call'.op = "add_validator" =>
            IF Cardinality(DOMAIN eng.validators) >= eng.max_validators
            THEN /\ eng_call'.ret = FALSE
                 /\ eng'.validators = eng.validators
                 /\ eng'.delegates = eng.delegates
            ELSE /\ eng_call'.ret = TRUE
                 /\ DOMAIN eng'.validators = DOMAIN eng.validators \cup {eng_call'.arg}
                 /\ eng'.validators[eng_call'.arg] = eng_call'.stake
                 /\ \A b \in DOMAIN eng.validators \ {eng_call'.arg} :
                      eng'.validators[b] = eng.validators[b]]_<<eng, eng_call.op, eng_call.arg>>
    /\ [](Cardinality(DOMAIN eng.validators) <= eng.max_validators)

\* C28 witness: add_validator has been turned down by a full roster.
AddValidatorCapacityWitness ==
    /\ eng_call.op = "add_validator"
    /\ eng_call.ret = FALSE
    /\ eng_call.arg \notin DOMAIN eng.validators
    /\ Cardinality(DOMAIN eng.validators) = eng.max_validators


(***************************************************************************)
(* Claims about the block time (checked under SpecBlockTime).              *)
(***************************************************************************)
\* C29: adjust_block_time with a load above 0.8 sets block_time to
\* max(1, block_time - 0.5), with a load below 0.3 to
\* min(5, block_time + 0.5), and any other load leaves it as it is; after
\* any sequence of network status messages 1 <= block_time <= 5 seconds.
BlockTimeAdjustment ==
    /\ [][eng_call'.op = "adjust_block_time" =>
            LET load == eng_call'.arg
                lower == eng.block_time - BlockTimeStep
                higher == eng.block_time + BlockTimeStep
            IN  /\ load > HighLoad =>
                     eng'.block_time = (IF lower < 2 * BlockTimeMin THEN 2 * BlockTimeMin ELSE lower)
                /\ load < LowLoad =>
                     eng'.block_time = (IF higher > 2 * BlockTimeMax THEN 2 * BlockTimeMax ELSE higher)
                /\ (load <= HighLoad /\ load >= LowLoad) =>
                     eng'.block_time = eng.block_time]_<<eng, eng_call.op, eng_call.arg>>
    /\ [](2 * BlockTimeMin <= eng.block_time /\ eng.block_time <= 2 * BlockTimeMax)

\* C29 witness: a high load has met a block time of one second.
BlockTimeAdjustmentWitness ==
    /\ eng_call.op = "adjust_block_time"
    /\ eng_call.arg > HighLoad
    /\ eng.block_time = 2 * BlockTimeMin


(***************************************************************************)
(* Claims about the database (checked under SpecLifecycle).                *)
(***************************************************************************)
\* the least element of a non-empty set of numbers
Least(S) == CHOOSE x \in S : \A y \in S : x <= y

\* C30: for every transaction hash, after any sequence of
\* record_tx_received and save_block calls the stored received timestamp
\* never becomes larger than a value it held before, and as long as only
\* record_tx_received has touched the hash it equals the least of the
\* timestamps recorded for it.
FirstSeenNeverRegresses ==
    /\ [][\A h \in DOMAIN db.transaction_lifecycle :
            LET before == db.transaction_lifecycle[h].received_timestamp
            IN  before # Null =>
                    /\ h \in DOMAIN db'.transaction_lifecycle
                    /\ db'.transaction_lifecycle[h].received_timestamp # Null
                    /\ db'.transaction_lifecycle[h].received_timestamp <= before]_dbVars
    /\ [](\A h \in DOMAIN db.transaction_lifecycle :
            db.transaction_lifecycle[h].included_timestamp = Null =>
                /\ h \in DOMAIN db_recorded
                /\ db.transaction_lifecycle[h].received_timestamp = Least(db_recorded[h]))

\* C30 witness: a transaction that a block has included was recorded as
\* received at a later time than the one the table holds for it.
FirstSeenWitness ==
    \E h \in DOMAIN db.transaction_lifecycle :
        /\ db.transaction_lifecycle[h].included_timestamp # Null
        /\ h \in DOMAIN db_recorded
        /\ \E later \in db_recorded[h] :
             db.transaction_lifecycle[h].received_timestamp < later


(***************************************************************************)
(* Claims about the dictionary form of a block (checked under SpecCatchUp).*)
(***************************************************************************)
\* the blocks a node holds as objects: its chain and the candidate of its
\* proposer once it is built
BlockObjects(n) ==
    {blocks[n][j] : j \in 1..Len(blocks[n])}
        \cup (IF loop[n].pc \in {"published", "appended"}
              THEN {loop[n].new_block} ELSE {})

AppendOrderIsIndexOrder ==
    \A n \in NetNodes : \A j \in 1..Len(blocks[n]), k \in 1..Len(blocks[n]) :
        j < k => blocks[n][j].block_index < blocks[n][k].block_index


\* C37: in every reachable state the block at position i of a node's local
\* chain (counted from 0) has index i, so that the length of the chain, the
\* index the proposer gives to its next block, is the tail's index plus one.
ChainIndicesContiguous ==
    \A n \in NetNodes :
        /\ \A j \in 1..Len(blocks[n]) : blocks[n][j].block_index = j - 1
        /\ Len(blocks[n]) = Last(blocks[n]).block_index + 1


(***************************************************************************)
(* Claims about the handler of incoming blocks (checked under Spec).       *)
(***************************************************************************)
\* the tests of _handle_new_block on block b against the chain of node n as
\* it is now, with the power the node measures: no block of the chain has
\* b's hash, validate_block passes against the tail and b links to the tail
InboundAccepts(n, b, power_usage) ==
    /\ \A j \in 1..Len(blocks[n]) : blocks[n][j].hash # b.hash
    /\ validate_block(dpos[n], all_nodes_metrics[n], now, b, power_usage,
                      Last(blocks[n]).timestamp, Last(blocks[n]).block_index, 0)
    /\ b.previous_hash = Last(blocks[n]).hash

\* what the tests of _handle_new_block say of block b and the chain of node
\* n whatever the clock and the power reading: b is new to the chain, its
\* index and timestamp are beyond the tail's and it links to the tail
InboundLinks(n, b) ==
    /\ \A j \in 1..Len(blocks[n]) : blocks[n][j].hash # b.hash
    /\ b.block_index > Last(blocks[n]).block_index
    /\ b.timestamp > Last(blocks[n]).timestamp
    /\ b.validator \in Range(dpos[n].delegates)
    /\ b.previous_hash = Last(blocks[n]).hash

\* C34: the handler of incoming blocks appends and persists a received
\* block only if no block of the chain has its hash, validate_block passes
\* against the present tail and its previous_hash is the tail's hash; a
\* block that fails one of these is dropped for good with the chain, the
\* store and the pending pool as they were.
InboundAppendRule ==
    [][\A n \in NetNodes :
         /\ (mqtt[n].pc = "append" /\ mqtt'[n].pc = "idle") =>
                /\ InboundLinks(n, mqtt[n].block)
                /\ blocks'[n] = Append(blocks[n], mqtt[n].block)
                /\ storage'[n] = save_block(storage[n], mqtt[n].block)
         /\ (mqtt[n].pc = "idle" /\ mqtt'[n].pc = "idle") =>
                \A msg \in blocks_topic \ blocks_topic' :
                    msg.to = n =>
                        /\ \E power_usage \in PowerReadings :
                               ~ InboundAccepts(n, from_dict(msg.payload), power_usage)
                        /\ blocks'[n] = blocks[n]
                        /\ storage'[n] = storage[n]
                        /\ pending_transactions'[n] = pending_transactions[n]
      ]_vars


(***************************************************************************)
(* Claims about the age of a block (checked under SpecFresh).              *)
(***************************************************************************)
\* the first entry of the answer node n works on passes the continuity
\* check and is stamped more than block_time away from the present time
OldBlockFromPeer(n) ==
    /\ loop[n].pc = "answered"
    /\ loop[n].blocks_data # <<>>
    /\ Continuous(blocks[n], Head(loop[n].blocks_data))
    /\ Abs(now - Head(loop[n].blocks_data).timestamp) > dpos[n].block_time

\* C35: the handler of incoming blocks passes on to the chain no block
\* stamped more than block_time, as adjusted by then, away from the time at
\* which it validates the block, and appends the block it validated; peer
\* sync appends every block of an answer that passes the continuity check,
\* whatever the age of its timestamp.
FreshnessOnBroadcastOnly ==
    [][\A n \in NetNodes :
         /\ (mqtt[n].pc = "idle" /\ mqtt'[n].pc = "append") =>
                Abs(now - mqtt'[n].block.timestamp) <= dpos[n].block_time
         /\ (mqtt[n].pc = "append" /\ mqtt'[n].pc = "idle") =>
                blocks'[n] = Append(blocks[n], mqtt[n].block)
         /\ (loop[n].pc = "answered" /\ loop'[n].pc # "answered") =>
                /\ blocks'[n] = SyncByTail(blocks[n], loop[n].blocks_data)
                /\ OldBlockFromPeer(n) =>
                      blocks'[n][Len(blocks[n]) + 1]
                          = from_dict(Head(loop[n].blocks_data))
      ]_vars

\* a node is about to work on an answer whose first block is continuous
\* with its chain and older than its block time, which a status message
\* has brought below the default
FreshnessWitness ==
    \E n \in NetNodes :
        /\ OldBlockFromPeer(n)
        /\ dpos[n].block_time < Seconds(BlockTimeDefault)


(***************************************************************************)
(* Claims about the rotation of the leader (checked under SpecRotateFair). *)
(***************************************************************************)
\* the leader of the slot after the tail of node n when every delegate
\* counts as live
ScheduledDelegate(n) ==
    sorted(dpos[n].delegates)[((Last(blocks[n]).block_index + 1)
                                  % Len(dpos[n].delegates)) + 1]

\* node n runs with its delegates computed; the delegate c scheduled for
\* the slot after n's tail has stopped while another delegate runs and is
\* live in n's view, no heartbeat of c is on its way to n, and
\* liveness_threshold has passed since the last one n has seen
LeaderCrashed(n, c) ==
    /\ Connected(n)
    /\ dpos[n].delegates # <<>>
    /\ c = ScheduledDelegate(n)
    /\ ~ alive[c]
    /\ \E d \in Range(dpos[n].delegates) \ {c} :
         alive[d] /\ IsLive(all_nodes_metrics[n], d, now)
    /\ \A msg \in metrics_topic : ~ (msg.to = n /\ msg.payload.node_id = c)
    /\ now - all_nodes_metrics[n][c] >= Seconds(LivenessThreshold)

\* the proposer of node n is between two rounds, healthy, with transactions
\* pending, room in the chain and the block time passed since the tail
ReadyToSeal(n) ==
    /\ loop[n].pc = "idle"
    /\ pending_transactions[n] # <<>>
    /\ Len(blocks[n]) < MaxChain
    /\ is_time_to_propose_block(dpos[n], Last(blocks[n]).timestamp, now)

\* C36: when the delegate scheduled for the next slot has stopped publishing
\* heartbeats while another delegate stays live, then once
\* liveness_threshold has passed since its last heartbeat the
\* current_validator of every running node for that slot is a delegate
\* that runs and is live in the node's view; and if that delegate is
\* healthy with transactions pending, its proposer eventually appends a
\* new block to the chain.
LeaderRotation ==
    /\ [](\A n \in NetNodes, c \in NetNodes :
            LeaderCrashed(n, c) =>
                /\ CurrentValidator(n) \in Range(dpos[n].delegates)
                /\ alive[CurrentValidator(n)]
                /\ IsLive(all_nodes_metrics[n], CurrentValidator(n), now))
    /\ \A n \in Standbys :
           (/\ \E c \in NetNodes : LeaderCrashed(n, c)
            /\ CurrentValidator(n) = n
            /\ ReadyToSeal(n)) ~> (loop[n].pc = "appended")

\* a node has sealed a block in the slot of a delegate that had stopped
\* and was no longer live in its view
LeaderRotationWitness ==
    \E n \in NetNodes, c \in NetNodes :
        /\ ~ alive[c]
        /\ Len(blocks[n]) >= 2
        /\ Last(blocks[n]).validator = n
        /\ sorted(dpos[n].delegates)[(Last(blocks[n]).block_index
                                         % Len(dpos[n].delegates)) + 1] = c
        /\ Last(blocks[n]).timestamp - all_nodes_metrics[n][c]
               >= Seconds(LivenessThreshold)


\* node n is a delegate that runs, is live in its own view, would pass its
\* health gate and has transactions pending, the block time passed
LiveAndReady(n) ==
    /\ Connected(n)
    /\ n \in Range(dpos[n].delegates)
    /\ IsLive(all_nodes_metrics[n], n, now)
    /\ ReadyToSeal(n)

\* C40: if a live delegate passes its health gate and has transactions
\* pending, a new block is eventually appended to the chain, also when the
\* delegate scheduled for the next slot keeps publishing heartbeats, and so
\* stays live, but fails its own health gate in every round: unless that
\* delegate stops.
ProgressDespiteUnhealthyLeader ==
    \A n \in Standbys :
        (LiveAndReady(n) /\ alive[FirstLeader])
            ~> (\/ \E d \in NetNodes : loop[d].pc = "appended"
                \/ ~ alive[FirstLeader])


(***************************************************************************)
(* Claims about the store of a node (checked under Spec).                  *)
(***************************************************************************)
\* neither thread of node n is between sealing or accepting a block and
\* having appended and saved it
NoAppendInProgress(n) ==
    /\ loop[n].pc \in {"new", "idle"}
    /\ mqtt[n].pc = "idle"

\* C38: whenever no append is in progress at a node, its store holds exactly
\* the blocks of its in-memory chain: get_chain_length() is the length of
\* the chain and get_block(B.block_index) has B's hash for every block B of
\* the chain; and saving a block of the chain once more leaves the store
\* as it is.
StoreMirrorsChain ==
    \A n \in NetNodes :
        NoAppendInProgress(n) =>
            /\ get_chain_length(storage[n]) = Len(blocks[n])
            /\ \A j \in 1..Len(blocks[n]) :
                   LET B == blocks[n][j]
                   IN  /\ B.block_index \in DOMAIN storage[n]
                       /\ get_block(storage[n], B.block_index).hash = B.hash
                       /\ save_block(storage[n], B) = storage[n]


(***************************************************************************)
(* Claims about the transactions of a chain (checked under SpecCommit).    *)
(***************************************************************************)
\* the transactions published once: a heartbeat carries its sender and
\* the time of its round, and a node has one round at most per instant
PublishedOnce(tx) == "node_id" \in DOMAIN tx

\* a chain none of whose appends raced with another: the indices count from
\* the genesis block and every block names the hash of the one before it
LinkedChain(n) ==
    \A k \in 1..Len(blocks[n]) :
        /\ blocks[n][k].block_index = k - 1
        /\ k > 1 => blocks[n][k].previous_hash = blocks[n][k - 1].hash

\* C39: in every reachable state a transaction that was published once
\* occurs in at most one block of a node's local chain: no two blocks of a
\* linked chain hold it, so a node seals no transaction that it holds in a
\* block received from another node.
CommittedAtMostOnce ==
    \A n \in NetNodes : \A j \in 1..Len(blocks[n]), k \in 1..Len(blocks[n]) :
        (j < k /\ LinkedChain(n)) =>
            \A tx \in Range(blocks[n][j].transactions) :
                PublishedOnce(tx) => tx \notin Range(blocks[n][k].transactions)

=============================================================================
